---- MODULE Spec2Model ----
(***************************************************************************)
(* The CA manager of the SPIRE server (pkg/server/ca/manager.go): two      *)
(* dual-slot rotation state machines (X509 CA, JWT key), recovery from     *)
(* the journal, and the prune loop over the datastore's trust bundle.      *)
(*                                                                         *)
(* Time is counted in units of four hours, so that the 24h constants are   *)
(* 6, a lifetime's half is 3 and its sixth is 1.  Keys are numbered; a     *)
(* certificate is its public key and its NotAfter.                         *)
(***************************************************************************)
EXTENDS Integers, Sequences, FiniteSets, TLC

\* ------------------------------------------------------------ constants
DefaultCATTL == 6
safetyThreshold == 6

\* ------------------------------------------------------------ bounds
MaxTime == 12
MaxKeys == 8
MaxRestarts == 1
MaxFailures == 1

\* NewManager: a configured CATTL <= 0 is replaced by the default.
NewManagerCATTL(configured) == IF configured <= 0 THEN DefaultCATTL ELSE configured
CATTL == NewManagerCATTL(0)

SlotIDs == {"A", "B"}
Keys == 1..MaxKeys

\* ------------------------------------------------------------ helpers
Range(s) == {s[i] : i \in DOMAIN s}

\* Go's integer division truncates toward zero.
GoDiv(a, b) == IF a >= 0 THEN a \div b ELSE -((-a) \div b)

Min(S) == CHOOSE x \in S : \A y \in S : x <= y

Cert(k, t) == [key |-> k, notAfter |-> t]

\* ------------------------------------------------------------ slots
NoX509CA == [nil |-> TRUE]
NoJWTKey == [nil |-> TRUE]
NoSlot == [nil |-> TRUE]

newX509CASlot(id) == [id |-> id, issuedAt |-> 0, x509CA |-> NoX509CA]
newJWTKeySlot(id) == [id |-> id, issuedAt |-> 0, jwtKey |-> NoJWTKey]

\* A variant of x509CAKmKeyId that the properties below must tell from it: one
\* key id for both slots.
x509CAKmKeyId_shared(id) == <<"x509-CA", "A">>
x509CAKmKeyId(id) == <<"x509-CA", id>>
jwtKeyKmKeyId(id) == <<"JWT-Signer", id>>
KmKeyIDs == {x509CAKmKeyId(id) : id \in SlotIDs} \cup {jwtKeyKmKeyId(id) : id \in SlotIDs}

\* A variant of otherSlotID that the properties below must tell from it.
otherSlotID_same(id) == id
otherSlotID(id) == IF id = "A" THEN "B" ELSE "A"

x509IsEmpty(s) == s.x509CA = NoX509CA
jwtIsEmpty(s) == s.jwtKey = NoJWTKey

x509Reset(s) == [s EXCEPT !.x509CA = NoX509CA]
jwtReset(s) == [s EXCEPT !.jwtKey = NoJWTKey]

\* notAfter.Add(-lifetime / 2), notAfter.Add(-lifetime / 6)
\* A variant of preparationThreshold that the properties below must tell from
\* it: a third of the lifetime before notAfter.
preparationThreshold_third(issuedAt, notAfter) == notAfter + GoDiv(-(notAfter - issuedAt), 3)
preparationThreshold(issuedAt, notAfter) == notAfter + GoDiv(-(notAfter - issuedAt), 2)
activationThreshold(issuedAt, notAfter) == notAfter + GoDiv(-(notAfter - issuedAt), 6)

x509ShouldPrepareNext(s, t) ==
    /\ s.x509CA # NoX509CA
    /\ t > preparationThreshold(s.issuedAt, s.x509CA.chain[1].notAfter)
\* A variant of x509ShouldActivateNext that the properties below must tell
\* from it: it goes by the preparation threshold.
x509ShouldActivateNext_atPreparation(s, t) ==
    /\ s.x509CA # NoX509CA
    /\ t > preparationThreshold(s.issuedAt, s.x509CA.chain[1].notAfter)
x509ShouldActivateNext(s, t) ==
    /\ s.x509CA # NoX509CA
    /\ t > activationThreshold(s.issuedAt, s.x509CA.chain[1].notAfter)

\* A variant of jwtShouldPrepareNext that the properties below must tell from
\* it: an empty slot answers as an empty X509 slot does.
jwtShouldPrepareNext_emptyFalse(s, t) ==
    /\ s.jwtKey # NoJWTKey
    /\ t > preparationThreshold(s.issuedAt, s.jwtKey.notAfter)
jwtShouldPrepareNext(s, t) ==
    \/ s.jwtKey = NoJWTKey
    \/ t > preparationThreshold(s.issuedAt, s.jwtKey.notAfter)
\* A variant of jwtShouldActivateNext that the properties below must tell from
\* it: the swap is never due.
jwtShouldActivateNext_never(s, t) == FALSE
jwtShouldActivateNext(s, t) ==
    \/ s.jwtKey = NoJWTKey
    \/ t > activationThreshold(s.issuedAt, s.jwtKey.notAfter)

\* ------------------------------------------------------------ signing
\* The upstream CA's own certificates: an intermediate, which does not expire
\* within the model's horizon, and the root above it, which expires early.
FarFuture == MaxTime + safetyThreshold + DefaultCATTL
UpstreamIntermediate == Cert(0 - 1, FarFuture)
UpstreamRoot == Cert(0 - 2, 2)

\* What SubmitCSR may answer for the CSR of key k when the upstream signs with
\* expiry t: the current shape, the deprecated shape, or the deprecated shape
\* with an empty upstream trust bundle.
UpstreamResponses(k, t) ==
    { [signed |-> TRUE, certChain |-> <<Cert(k, t), UpstreamIntermediate>>,
       bundle |-> <<UpstreamRoot>>],
      [signed |-> FALSE, cert |-> Cert(k, t),
       upstreamTrustBundle |-> <<UpstreamIntermediate, UpstreamRoot>>],
      [signed |-> FALSE, cert |-> Cert(k, t), upstreamTrustBundle |-> <<>>] }

SignError == [err |-> TRUE]

\* A variant of parseUpstreamCACSRResponse that the properties below must tell
\* from it: the whole upstream trust bundle is kept as the trust bundle.
parseUpstreamCACSRResponse_wholeBundle(resp) ==
    IF resp.signed
    THEN [err |-> FALSE, chain |-> resp.certChain, trustBundle |-> resp.bundle]
    ELSE LET certChain == <<resp.cert>>
             trustBundle == resp.upstreamTrustBundle
             n == Len(trustBundle)
         IN  CASE n = 0 -> SignError
               [] n = 1 -> [err |-> FALSE, chain |-> certChain, trustBundle |-> trustBundle]
               [] OTHER -> [err |-> FALSE,
                            chain |-> certChain \o SubSeq(trustBundle, 1, n - 1),
                            trustBundle |-> trustBundle]

\* lines 803-845
parseUpstreamCACSRResponse(resp) ==
    IF resp.signed
    THEN [err |-> FALSE, chain |-> resp.certChain, trustBundle |-> resp.bundle]
    ELSE LET certChain == <<resp.cert>>
             trustBundle == resp.upstreamTrustBundle
             n == Len(trustBundle)
         IN  CASE n = 0 -> SignError
               [] n = 1 -> [err |-> FALSE, chain |-> certChain, trustBundle |-> trustBundle]
               [] OTHER -> [err |-> FALSE,
                            chain |-> certChain \o SubSeq(trustBundle, 1, n - 1),
                            trustBundle |-> SubSeq(trustBundle, n, n)]

\* resp is the upstream's answer, or SignError when SubmitCSR itself failed.
UpstreamSignServerCACertificate(resp) ==
    IF resp = SignError THEN SignError ELSE parseUpstreamCACSRResponse(resp)

SelfSignServerCACertificate(signer, notAfter) == Cert(signer, notAfter)

\* A variant of SignX509CA that the properties below must tell from it:
\* without UpstreamBundle the upstream's chain is kept whole.
SignX509CA_wholeChain(signer, upstreamCA, upstreamBundle, resp, notAfter) ==
    IF upstreamCA
    THEN LET up == UpstreamSignServerCACertificate(resp)
         IN  IF up.err THEN SignError
             ELSE IF upstreamBundle
                  THEN [err |-> FALSE,
                        x509CA |-> [signer |-> signer, chain |-> up.chain,
                                    isIntermediate |-> TRUE],
                        trustBundle |-> up.trustBundle]
                  ELSE [err |-> FALSE,
                        x509CA |-> [signer |-> signer, chain |-> up.chain,
                                    isIntermediate |-> FALSE],
                        trustBundle |-> SubSeq(up.chain, 1, 1)]
    ELSE LET cert == SelfSignServerCACertificate(signer, notAfter)
         IN  [err |-> FALSE,
              x509CA |-> [signer |-> signer, chain |-> <<cert>>, isIntermediate |-> FALSE],
              trustBundle |-> <<cert>>]

\* upstreamCA: whether an upstream CA is configured.  Yields SignError or
\* [err, x509CA, trustBundle].
SignX509CA(signer, upstreamCA, upstreamBundle, resp, notAfter) ==
    IF upstreamCA
    THEN LET up == UpstreamSignServerCACertificate(resp)
         IN  IF up.err THEN SignError
             ELSE IF upstreamBundle
                  THEN [err |-> FALSE,
                        x509CA |-> [signer |-> signer, chain |-> up.chain,
                                    isIntermediate |-> TRUE],
                        trustBundle |-> up.trustBundle]
                  ELSE [err |-> FALSE,
                        x509CA |-> [signer |-> signer, chain |-> SubSeq(up.chain, 1, 1),
                                    isIntermediate |-> FALSE],
                        trustBundle |-> SubSeq(up.chain, 1, 1)]
    ELSE LET cert == SelfSignServerCACertificate(signer, notAfter)
         IN  [err |-> FALSE,
              x509CA |-> [signer |-> signer, chain |-> <<cert>>, isIntermediate |-> FALSE],
              trustBundle |-> <<cert>>]

newJWTKey(signer, kid, expiresAt) == [signer |-> signer, kid |-> kid, notAfter |-> expiresAt]

publicKeyFromJWTKey(jwtKey) ==
    [pkixBytes |-> jwtKey.signer, kid |-> jwtKey.kid, notAfter |-> jwtKey.notAfter]

\* ------------------------------------------------------------ state
VARIABLES
    now,            \* the Clock
    cfg,            \* ManagerConfig (upstreamCA, upstreamBundle) and its environment
    km,             \* KeyManager: key id -> public key (0: no key)
    bundle,         \* DataStore: the trust domain's bundle, or NoBundle
    journal,        \* Journal: the X509CA and JWT key entries on disk
    currentX509CA, nextX509CA, currentJWTKey, nextJWTKey,
    pcRot,          \* where Initialize / the rotation loop stands
    rotNow,         \* rotateX509CA's / rotateJWTKey's local now
    x509CAErr, jwtKeyErr,   \* rotate's two errors, of the pass running or last run
    initialized,    \* Initialize has returned nil (Run may start)
    coldStart,      \* loadJournal found no entries and no key-manager keys
    ticked,         \* the rotation ticker has fired since Initialize
    x509Sets,       \* the CASetter's SetX509CA calls, in order
    jwtSets,        \* the CASetter's SetJWTKey calls, in order
    pcPrune,        \* where the prune loop stands
    pruneNow,       \* pruneBundle's local now (the cutoff)
    oldBundle,      \* pruneBundle's fetched bundle
    pruneResult,    \* what the last pruneBundle returned
    appended,       \* history: everything AppendBundle has stored, as one bundle
    restarts,       \* how many times the server process was started again
    failures,       \* how many backend calls have failed
    passed,         \* a rotation pass has started since the clock last advanced
    steps,          \* the calls of the pass's last prepare and activate, in order
    ctxDone,        \* the context Run was called with has been cancelled
    runResult,      \* what Run has returned, or "none"
    signCase,       \* the arguments of a call of the signing primitives, or NoSignCase
    signResult,     \* what that call returned, or NoSignResult
    reloaded,       \* what loading the journal's last entries has yielded, or NoReload
    pruned,         \* the manager.bundle.pruned counter of the Metrics sink
    slotCase,       \* a slot and a time ShouldPrepareNext and ShouldActivateNext are asked about, or NoSlotCase
    slotResult      \* what they answered, or NoSlotResult

vars == <<now, cfg, km, bundle, journal, currentX509CA, nextX509CA, currentJWTKey,
          nextJWTKey, pcRot, rotNow, x509CAErr, jwtKeyErr, initialized, coldStart,
          ticked, x509Sets, jwtSets, pcPrune, pruneNow, oldBundle, pruneResult,
          appended, restarts, failures, passed,
          steps, ctxDone, runResult, signCase, signResult, reloaded, pruned,
          slotCase, slotResult>>

NoSlotCase == [nil |-> TRUE]
NoSlotResult == [nil |-> TRUE]
NoSignCase == [nil |-> TRUE]
NoSignResult == [nil |-> TRUE]
NoReload == [nil |-> TRUE]

\* ------------------------------------------------------------ datastore
NoBundle == [nil |-> TRUE]
EmptyBundle == [rootCAs |-> {}, jwtSigningKeys |-> {}]

\* A bundle left in the datastore by an earlier deployment: a root entry
\* whose DER bytes hold two certificates, a long-lived root, and one JWT
\* signing key.
LegacyBundle ==
    [rootCAs |-> {<<Cert(0 - 3, 1), Cert(0 - 4, FarFuture)>>, <<Cert(0 - 6, FarFuture)>>},
     jwtSigningKeys |-> {[pkixBytes |-> 0 - 5, kid |-> 0 - 5, notAfter |-> 1]}]

\* AppendBundle: additive; creates the bundle when there is none.
dsAppendBundle(b, add) ==
    IF b = NoBundle THEN add
    ELSE [rootCAs |-> b.rootCAs \cup add.rootCAs,
          jwtSigningKeys |-> b.jwtSigningKeys \cup add.jwtSigningKeys]

\* UpdateBundle: authoritative replace.
dsUpdateBundle(b, new) == new

\* appendBundle's request: one root entry per certificate of caChain, and the
\* JWT signing key when there is one (jwtSigningKeys is {} or a singleton).
appendBundleRequest(caChain, jwtSigningKeys) ==
    [rootCAs |-> {<<caChain[i]>> : i \in DOMAIN caChain},
     jwtSigningKeys |-> jwtSigningKeys]

\* ------------------------------------------------------------ keys
BundleKeys(b) ==
    IF b = NoBundle THEN {}
    ELSE UNION {{e[i].key : i \in DOMAIN e} : e \in b.rootCAs}
         \cup {k.pkixBytes : k \in b.jwtSigningKeys}

X509SlotKeys(s) == IF s = NoSlot \/ x509IsEmpty(s) THEN {} ELSE {s.x509CA.signer}
JWTSlotKeys(s) == IF s = NoSlot \/ jwtIsEmpty(s) THEN {} ELSE {s.jwtKey.signer}

UsedKeys ==
    {km[id] : id \in KmKeyIDs}
    \cup BundleKeys(bundle) \cup BundleKeys(oldBundle)
    \cup BundleKeys(appended)
    \cup {e.chain[1].key : e \in Range(journal.x509CAs)}
    \cup {e.publicKey : e \in Range(journal.jwtKeys)}
    \cup X509SlotKeys(currentX509CA) \cup X509SlotKeys(nextX509CA)
    \cup JWTSlotKeys(currentJWTKey) \cup JWTSlotKeys(nextJWTKey)
    \cup {c.x509CA.signer : c \in Range(x509Sets)}
    \cup {c.jwtKey.signer : c \in Range(jwtSets)}

\* GenerateKey draws a key no one has seen; the model numbers it with the
\* least number not in use.
FreshKeys == Keys \ UsedKeys
NewKey == Min(FreshKeys)

\* ------------------------------------------------------------ journal times
\* Time is counted in ticks of the Clock.  A journal entry holds its times in
\* whole units (Unix seconds), cfg.clockTicks ticks each.
\* A variant of Unix that the properties below must tell from it: it rounds
\* up.
Unix_roundedUp(t) == (t + cfg.clockTicks - 1) \div cfg.clockTicks
\* Time.Unix(): the whole units that have gone by at t.
Unix(t) == t \div cfg.clockTicks
\* time.Unix(sec, 0)
timeUnix(sec) == sec * cfg.clockTicks

\* ------------------------------------------------------------ prepare
\* The upstream's possible answers to a prepare at this moment (SignError:
\* SubmitCSR failed); without an upstream CA nothing is asked.
SubmitCSRAnswers ==
    IF cfg.upstreamCA
    THEN UpstreamResponses(NewKey, now + cfg.upstreamTTL) \cup {SignError}
    ELSE {SignError}

\* Variants of prepareX509CA that the properties below must tell from it: a
\* failed journal append fails the preparation; the journal is appended to
\* before the bundle.
prepareX509CA_journalFatal(slot, kmOK, resp, dsOK, jOK) ==
    LET reset == x509Reset(slot)
        signer == NewKey
        kmGen == [km EXCEPT ![x509CAKmKeyId(slot.id)] = signer]
        signed == SignX509CA(signer, cfg.upstreamCA, cfg.upstreamBundle, resp, now + CATTL)
        failed(k, calls) ==
            [err |-> TRUE, slot |-> reset, km |-> k, bundle |-> bundle,
             journal |-> journal, appended |-> appended, steps |-> calls]
    IN  IF ~kmOK THEN failed(km, <<"GenerateKey">>)
        ELSE IF signed.err THEN failed(kmGen, <<"GenerateKey", "SignX509CA">>)
        ELSE IF ~dsOK \/ ~jOK
             THEN failed(kmGen, <<"GenerateKey", "SignX509CA", "AppendBundle">>)
        ELSE LET req == appendBundleRequest(signed.trustBundle, {})
                 entry == [slotId |-> slot.id, issuedAt |-> Unix(now),
                           chain |-> signed.x509CA.chain,
                           isIntermediate |-> signed.x509CA.isIntermediate]
             IN  [err |-> FALSE,
                  slot |-> [reset EXCEPT !.issuedAt = now, !.x509CA = signed.x509CA],
                  km |-> kmGen,
                  bundle |-> dsAppendBundle(bundle, req),
                  journal |-> IF jOK
                              THEN [journal EXCEPT !.x509CAs = Append(@, entry)]
                              ELSE journal,
                  appended |-> dsAppendBundle(appended, req),
                  steps |-> <<"GenerateKey", "SignX509CA", "AppendBundle", "slot.x509CA",
                              "AppendX509CA", "X509 CA prepared">>]

prepareX509CA_journalFirst(slot, kmOK, resp, dsOK, jOK) ==
    LET reset == x509Reset(slot)
        signer == NewKey
        kmGen == [km EXCEPT ![x509CAKmKeyId(slot.id)] = signer]
        signed == SignX509CA(signer, cfg.upstreamCA, cfg.upstreamBundle, resp, now + CATTL)
        failed(k, calls) ==
            [err |-> TRUE, slot |-> reset, km |-> k, bundle |-> bundle,
             journal |-> journal, appended |-> appended, steps |-> calls]
    IN  IF ~kmOK THEN failed(km, <<"GenerateKey">>)
        ELSE IF signed.err THEN failed(kmGen, <<"GenerateKey", "SignX509CA">>)
        ELSE IF ~dsOK THEN failed(kmGen, <<"GenerateKey", "SignX509CA", "AppendBundle">>)
        ELSE LET req == appendBundleRequest(signed.trustBundle, {})
                 entry == [slotId |-> slot.id, issuedAt |-> Unix(now),
                           chain |-> signed.x509CA.chain,
                           isIntermediate |-> signed.x509CA.isIntermediate]
             IN  [err |-> FALSE,
                  slot |-> [reset EXCEPT !.issuedAt = now, !.x509CA = signed.x509CA],
                  km |-> kmGen,
                  bundle |-> dsAppendBundle(bundle, req),
                  journal |-> IF jOK
                              THEN [journal EXCEPT !.x509CAs = Append(@, entry)]
                              ELSE journal,
                  appended |-> dsAppendBundle(appended, req),
                  steps |-> <<"GenerateKey", "SignX509CA", "AppendX509CA", "AppendBundle",
                              "slot.x509CA", "X509 CA prepared">>]

\* prepareX509CA on slot, with the backends' answers as inputs: kmOK (GenerateKey),
\* resp (SubmitCSR), dsOK (AppendBundle), jOK (the journal append).  Yields the
\* error flag and the slot, key manager, bundle and journal it leaves.
prepareX509CA(slot, kmOK, resp, dsOK, jOK) ==
    LET reset == x509Reset(slot)
        signer == NewKey
        kmGen == [km EXCEPT ![x509CAKmKeyId(slot.id)] = signer]
        signed == SignX509CA(signer, cfg.upstreamCA, cfg.upstreamBundle, resp, now + CATTL)
        failed(k, calls) ==
            [err |-> TRUE, slot |-> reset, km |-> k, bundle |-> bundle,
             journal |-> journal, appended |-> appended, steps |-> calls]
    IN  IF ~kmOK THEN failed(km, <<"GenerateKey">>)
        ELSE IF signed.err THEN failed(kmGen, <<"GenerateKey", "SignX509CA">>)
        ELSE IF ~dsOK THEN failed(kmGen, <<"GenerateKey", "SignX509CA", "AppendBundle">>)
        ELSE LET req == appendBundleRequest(signed.trustBundle, {})
                 entry == [slotId |-> slot.id, issuedAt |-> Unix(now),
                           chain |-> signed.x509CA.chain,
                           isIntermediate |-> signed.x509CA.isIntermediate]
             IN  [err |-> FALSE,
                  slot |-> [reset EXCEPT !.issuedAt = now, !.x509CA = signed.x509CA],
                  km |-> kmGen,
                  bundle |-> dsAppendBundle(bundle, req),
                  journal |-> IF jOK
                              THEN [journal EXCEPT !.x509CAs = Append(@, entry)]
                              ELSE journal,
                  appended |-> dsAppendBundle(appended, req),
                  steps |-> <<"GenerateKey", "SignX509CA", "AppendBundle", "slot.x509CA",
                              "AppendX509CA", "X509 CA prepared">>]

\* A variant of prepareJWTKey that the properties below must tell from it: the
\* slot is recorded before the bundle is appended to.
prepareJWTKey_slotFirst(slot, kmOK, dsOK, jOK) ==
    LET reset == jwtReset(slot)
        signer == NewKey
        kmGen == [km EXCEPT ![jwtKeyKmKeyId(slot.id)] = signer]
        jwtKey == newJWTKey(signer, signer, now + CATTL)
        failed(k, calls) ==
            [err |-> TRUE, slot |-> reset, km |-> k, bundle |-> bundle,
             journal |-> journal, appended |-> appended, steps |-> calls]
    IN  IF ~kmOK THEN failed(km, <<"GenerateKey">>)
        ELSE IF ~dsOK
             THEN [failed(kmGen, <<"GenerateKey", "newJWTKey", "AppendBundle">>)
                       EXCEPT !.slot = [reset EXCEPT !.issuedAt = now, !.jwtKey = jwtKey]]
        ELSE LET req == appendBundleRequest(<<>>, {publicKeyFromJWTKey(jwtKey)})
                 entry == [slotId |-> slot.id, issuedAt |-> Unix(now),
                           notAfter |-> Unix(jwtKey.notAfter), kid |-> jwtKey.kid,
                           publicKey |-> jwtKey.signer]
             IN  [err |-> FALSE,
                  slot |-> [reset EXCEPT !.issuedAt = now, !.jwtKey = jwtKey],
                  km |-> kmGen,
                  bundle |-> dsAppendBundle(bundle, req),
                  journal |-> IF jOK
                              THEN [journal EXCEPT !.jwtKeys = Append(@, entry)]
                              ELSE journal,
                  appended |-> dsAppendBundle(appended, req),
                  steps |-> <<"GenerateKey", "newJWTKey", "AppendBundle", "slot.jwtKey",
                              "AppendJWTKey", "JWT key prepared">>]

\* prepareJWTKey on slot; the Kid is random, and numbered like the key.
prepareJWTKey(slot, kmOK, dsOK, jOK) ==
    LET reset == jwtReset(slot)
        signer == NewKey
        kmGen == [km EXCEPT ![jwtKeyKmKeyId(slot.id)] = signer]
        jwtKey == newJWTKey(signer, signer, now + CATTL)
        failed(k, calls) ==
            [err |-> TRUE, slot |-> reset, km |-> k, bundle |-> bundle,
             journal |-> journal, appended |-> appended, steps |-> calls]
    IN  IF ~kmOK THEN failed(km, <<"GenerateKey">>)
        ELSE IF ~dsOK THEN failed(kmGen, <<"GenerateKey", "newJWTKey", "AppendBundle">>)
        ELSE LET req == appendBundleRequest(<<>>, {publicKeyFromJWTKey(jwtKey)})
                 entry == [slotId |-> slot.id, issuedAt |-> Unix(now),
                           notAfter |-> Unix(jwtKey.notAfter), kid |-> jwtKey.kid,
                           publicKey |-> jwtKey.signer]
             IN  [err |-> FALSE,
                  slot |-> [reset EXCEPT !.issuedAt = now, !.jwtKey = jwtKey],
                  km |-> kmGen,
                  bundle |-> dsAppendBundle(bundle, req),
                  journal |-> IF jOK
                              THEN [journal EXCEPT !.jwtKeys = Append(@, entry)]
                              ELSE journal,
                  appended |-> dsAppendBundle(appended, req),
                  steps |-> <<"GenerateKey", "newJWTKey", "AppendBundle", "slot.jwtKey",
                              "AppendJWTKey", "JWT key prepared">>]

\* activateX509CA / activateJWTKey: the call the sink receives.
activateX509CA(cur) == [slot |-> cur.id, x509CA |-> cur.x509CA]
activateJWTKey(cur) == [slot |-> cur.id, jwtKey |-> cur.jwtKey]

\* ------------------------------------------------------------ rotation
\* rotateX509CA runs in at most three atomic steps, cut where it calls a
\* backend: the part up to the first prepare (begin), the prepare of current
\* with what follows it, the prepare of next with what follows it.  Each of
\* the operators below yields where the manager stands after a part:
\* [pc, cur, nxt, sets].  A nil dereference in activate is pc = "crashed".

\* A variant of the swap that publishes without swapping.
rotateX509CA_swap_noSwap(cur, nxt, sets, t) ==
    IF x509ShouldActivateNext(cur, t)
    THEN [pc |-> "jBegin", cur |-> cur, nxt |-> x509Reset(nxt),
          sets |-> Append(sets, activateX509CA(cur))]
    ELSE [pc |-> "jBegin", cur |-> cur, nxt |-> nxt, sets |-> sets]

\* lines 153-157: the swap, and the activation of the new current.
rotateX509CA_swap(cur, nxt, sets, t) ==
    IF x509ShouldActivateNext(cur, t)
    THEN IF x509IsEmpty(nxt)
         THEN [pc |-> "crashed", cur |-> nxt, nxt |-> x509Reset(cur), sets |-> sets]
         ELSE [pc |-> "jBegin", cur |-> nxt, nxt |-> x509Reset(cur),
               sets |-> Append(sets, activateX509CA(nxt))]
    ELSE [pc |-> "jBegin", cur |-> cur, nxt |-> nxt, sets |-> sets]

\* lines 147-157: whether next is to be prepared, else the swap.
rotateX509CA_afterCurrent(cur, nxt, sets, t) ==
    IF x509IsEmpty(nxt) /\ x509ShouldPrepareNext(cur, t)
    THEN [pc |-> "xNext", cur |-> cur, nxt |-> nxt, sets |-> sets]
    ELSE rotateX509CA_swap(cur, nxt, sets, t)

\* lines 135-157: whether current is to be prepared, else the rest.
rotateX509CA_start(cur, nxt, sets, t) ==
    IF x509IsEmpty(cur)
    THEN [pc |-> "xCur", cur |-> cur, nxt |-> nxt, sets |-> sets]
    ELSE rotateX509CA_afterCurrent(cur, nxt, sets, t)

\* A variant of the swap that does not tell the sink.
rotateJWTKey_swap_silent(cur, nxt, sets, t) ==
    IF jwtShouldActivateNext(cur, t)
    THEN IF jwtIsEmpty(nxt)
         THEN [pc |-> "crashed", cur |-> nxt, nxt |-> jwtReset(cur), sets |-> sets]
         ELSE [pc |-> "end", cur |-> nxt, nxt |-> jwtReset(cur), sets |-> sets]
    ELSE [pc |-> "end", cur |-> cur, nxt |-> nxt, sets |-> sets]

\* lines 236-240: the swap, and the activation of the new current.
rotateJWTKey_swap(cur, nxt, sets, t) ==
    IF jwtShouldActivateNext(cur, t)
    THEN IF jwtIsEmpty(nxt)
         THEN [pc |-> "crashed", cur |-> nxt, nxt |-> jwtReset(cur), sets |-> sets]
         ELSE [pc |-> "end", cur |-> nxt, nxt |-> jwtReset(cur),
               sets |-> Append(sets, activateJWTKey(nxt))]
    ELSE [pc |-> "end", cur |-> cur, nxt |-> nxt, sets |-> sets]

rotateJWTKey_afterCurrent(cur, nxt, sets, t) ==
    IF jwtIsEmpty(nxt) /\ jwtShouldPrepareNext(cur, t)
    THEN [pc |-> "jNext", cur |-> cur, nxt |-> nxt, sets |-> sets]
    ELSE rotateJWTKey_swap(cur, nxt, sets, t)

rotateJWTKey_start(cur, nxt, sets, t) ==
    IF jwtIsEmpty(cur)
    THEN [pc |-> "jCur", cur |-> cur, nxt |-> nxt, sets |-> sets]
    ELSE rotateJWTKey_afterCurrent(cur, nxt, sets, t)

\* ------------------------------------------------------------ recovery
\* What a journal entry holds where its bytes are no certificate and no
\* public key.
CorruptDER == [corrupt |-> TRUE]
CorruptPKIX == 0 - 9

\* A variant of loadX509CASlotFromEntry that the properties below must tell
\* from it: a chain that does not parse makes the entry unusable.
loadX509CASlotFromEntry_parseUnusable(entry, kmOK) ==
    IF entry.slotId = "" THEN [err |-> FALSE, slot |-> NoSlot]
    ELSE IF \E i \in DOMAIN entry.chain : entry.chain[i] = CorruptDER
    THEN [err |-> FALSE, slot |-> NoSlot]
    ELSE IF Len(entry.chain) = 0 THEN [err |-> FALSE, slot |-> NoSlot]
    ELSE IF ~kmOK THEN [err |-> TRUE, slot |-> NoSlot]
    ELSE LET signer == km[x509CAKmKeyId(entry.slotId)]
         IN  IF signer = 0 \/ entry.chain[1].key # signer
             THEN [err |-> FALSE, slot |-> NoSlot]
             ELSE [err |-> FALSE,
                   slot |-> [id |-> entry.slotId, issuedAt |-> timeUnix(entry.issuedAt),
                             x509CA |-> [signer |-> signer, chain |-> entry.chain,
                                         isIntermediate |-> entry.isIntermediate]]]

\* loadX509CASlotFromEntry: [err, slot]; slot is NoSlot for an unusable entry.
\* kmOK: whether the key manager answers GetPublicKey.
loadX509CASlotFromEntry(entry, kmOK) ==
    IF entry.slotId = "" THEN [err |-> FALSE, slot |-> NoSlot]
    ELSE IF \E i \in DOMAIN entry.chain : entry.chain[i] = CorruptDER
    THEN [err |-> TRUE, slot |-> NoSlot]
    ELSE IF Len(entry.chain) = 0 THEN [err |-> FALSE, slot |-> NoSlot]
    ELSE IF ~kmOK THEN [err |-> TRUE, slot |-> NoSlot]
    ELSE LET signer == km[x509CAKmKeyId(entry.slotId)]
         IN  IF signer = 0 \/ entry.chain[1].key # signer
             THEN [err |-> FALSE, slot |-> NoSlot]
             ELSE [err |-> FALSE,
                   slot |-> [id |-> entry.slotId, issuedAt |-> timeUnix(entry.issuedAt),
                             x509CA |-> [signer |-> signer, chain |-> entry.chain,
                                         isIntermediate |-> entry.isIntermediate]]]

loadJWTKeySlotFromEntry(entry, kmOK) ==
    IF entry.slotId = ""
    THEN [err |-> FALSE, slot |-> NoSlot]
    ELSE IF entry.publicKey = CorruptPKIX THEN [err |-> TRUE, slot |-> NoSlot]
    ELSE IF ~kmOK THEN [err |-> TRUE, slot |-> NoSlot]
    ELSE LET signer == km[jwtKeyKmKeyId(entry.slotId)]
         IN  IF signer = 0 \/ entry.publicKey # signer
             THEN [err |-> FALSE, slot |-> NoSlot]
             ELSE [err |-> FALSE,
                   slot |-> [id |-> entry.slotId, issuedAt |-> timeUnix(entry.issuedAt),
                             jwtKey |-> [signer |-> signer, kid |-> entry.kid,
                                         notAfter |-> timeUnix(entry.notAfter)]]]

NotLoaded == [err |-> FALSE, slot |-> NoSlot]

\* A variant of loadJournal_x509 that the properties below must tell from it:
\* a lone usable last entry is given an empty next slot of its own id.
loadJournal_x509_sameId(entries, kmLast, kmPrev) ==
    LET n == Len(entries)
        last == IF n > 0 THEN loadX509CASlotFromEntry(entries[n], kmLast) ELSE NotLoaded
        prev == IF ~last.err /\ last.slot # NoSlot /\ n > 1
                THEN loadX509CASlotFromEntry(entries[n - 1], kmPrev) ELSE NotLoaded
    IN  IF last.err THEN [err |-> TRUE, cur |-> NoSlot, nxt |-> NoSlot]
        ELSE IF prev.err THEN [err |-> TRUE, cur |-> NoSlot, nxt |-> last.slot]
        ELSE IF prev.slot # NoSlot
             THEN [err |-> FALSE, cur |-> prev.slot, nxt |-> last.slot]
        ELSE IF last.slot # NoSlot
             THEN [err |-> FALSE, cur |-> last.slot, nxt |-> newX509CASlot(last.slot.id)]
        ELSE [err |-> FALSE, cur |-> newX509CASlot("A"), nxt |-> newX509CASlot("B")]

\* loadJournal, lines 445-468: [err, cur, nxt] from the X509CA entries.  kmLast
\* and kmPrev: whether the key manager answers for the last entry and for the
\* one before it.  On an error cur and nxt are what the Manager is left with.
loadJournal_x509(entries, kmLast, kmPrev) ==
    LET n == Len(entries)
        last == IF n > 0 THEN loadX509CASlotFromEntry(entries[n], kmLast) ELSE NotLoaded
        prev == IF ~last.err /\ last.slot # NoSlot /\ n > 1
                THEN loadX509CASlotFromEntry(entries[n - 1], kmPrev) ELSE NotLoaded
    IN  IF last.err THEN [err |-> TRUE, cur |-> NoSlot, nxt |-> NoSlot]
        ELSE IF prev.err THEN [err |-> TRUE, cur |-> NoSlot, nxt |-> last.slot]
        ELSE IF prev.slot # NoSlot
             THEN [err |-> FALSE, cur |-> prev.slot, nxt |-> last.slot]
        ELSE IF last.slot # NoSlot
             THEN [err |-> FALSE, cur |-> last.slot,
                   nxt |-> newX509CASlot(otherSlotID(last.slot.id))]
        ELSE [err |-> FALSE, cur |-> newX509CASlot("A"), nxt |-> newX509CASlot("B")]

\* loadJournal, lines 476-499: [err, cur, nxt] from the JWT key entries.
loadJournal_jwt(entries, kmLast, kmPrev) ==
    LET n == Len(entries)
        last == IF n > 0 THEN loadJWTKeySlotFromEntry(entries[n], kmLast) ELSE NotLoaded
        prev == IF ~last.err /\ last.slot # NoSlot /\ n > 1
                THEN loadJWTKeySlotFromEntry(entries[n - 1], kmPrev) ELSE NotLoaded
    IN  IF last.err THEN [err |-> TRUE, cur |-> NoSlot, nxt |-> NoSlot]
        ELSE IF prev.err THEN [err |-> TRUE, cur |-> NoSlot, nxt |-> last.slot]
        ELSE IF prev.slot # NoSlot
             THEN [err |-> FALSE, cur |-> prev.slot, nxt |-> last.slot]
        ELSE IF last.slot # NoSlot
             THEN [err |-> FALSE, cur |-> last.slot,
                   nxt |-> newJWTKeySlot(otherSlotID(last.slot.id))]
        ELSE [err |-> FALSE, cur |-> newJWTKeySlot("A"), nxt |-> newJWTKeySlot("B")]

\* ------------------------------------------------------------ prune
\* Variants of pruneBundle_filter that the properties below must tell from it:
\* one that never refuses, one that refuses only for the JWT keys, one that
\* forgets the safety threshold, one that always reports a change.
pruneBundle_filter_noRefusal(old, cutoff) ==
    LET rootCAs == {e \in old.rootCAs : \A i \in DOMAIN e : e[i].notAfter > cutoff}
        jwtSigningKeys == {k \in old.jwtSigningKeys : k.notAfter > cutoff}
    IN  [newBundle |-> [rootCAs |-> rootCAs, jwtSigningKeys |-> jwtSigningKeys],
         changed |-> rootCAs # old.rootCAs \/ jwtSigningKeys # old.jwtSigningKeys,
         err |-> ""]

pruneBundle_filter_noRootRefusal(old, cutoff) ==
    LET rootCAs == {e \in old.rootCAs : \A i \in DOMAIN e : e[i].notAfter > cutoff}
        jwtSigningKeys == {k \in old.jwtSigningKeys : k.notAfter > cutoff}
    IN  [newBundle |-> [rootCAs |-> rootCAs, jwtSigningKeys |-> jwtSigningKeys],
         changed |-> rootCAs # old.rootCAs \/ jwtSigningKeys # old.jwtSigningKeys,
         err |-> IF jwtSigningKeys = {} THEN "would prune all JWT signing keys" ELSE ""]

pruneBundle_filter_noThreshold(old, cutoff) ==
    LET rootCAs == {e \in old.rootCAs :
                       \A i \in DOMAIN e : e[i].notAfter > cutoff + safetyThreshold}
        jwtSigningKeys == {k \in old.jwtSigningKeys : k.notAfter > cutoff + safetyThreshold}
    IN  [newBundle |-> [rootCAs |-> rootCAs, jwtSigningKeys |-> jwtSigningKeys],
         changed |-> rootCAs # old.rootCAs \/ jwtSigningKeys # old.jwtSigningKeys,
         err |-> IF rootCAs = {} THEN "would prune all certificates"
                 ELSE IF jwtSigningKeys = {} THEN "would prune all JWT signing keys"
                 ELSE ""]

pruneBundle_filter_alwaysChanged(old, cutoff) ==
    LET rootCAs == {e \in old.rootCAs : \A i \in DOMAIN e : e[i].notAfter > cutoff}
        jwtSigningKeys == {k \in old.jwtSigningKeys : k.notAfter > cutoff}
    IN  [newBundle |-> [rootCAs |-> rootCAs, jwtSigningKeys |-> jwtSigningKeys],
         changed |-> TRUE,
         err |-> IF rootCAs = {} THEN "would prune all certificates"
                 ELSE IF jwtSigningKeys = {} THEN "would prune all JWT signing keys"
                 ELSE ""]

\* pruneBundle, lines 335-375, on the fetched bundle: what is kept, whether
\* anything was dropped, and the error that refuses the prune ("" for none).
pruneBundle_filter(old, cutoff) ==
    LET rootCAs == {e \in old.rootCAs : \A i \in DOMAIN e : e[i].notAfter > cutoff}
        jwtSigningKeys == {k \in old.jwtSigningKeys : k.notAfter > cutoff}
    IN  [newBundle |-> [rootCAs |-> rootCAs, jwtSigningKeys |-> jwtSigningKeys],
         changed |-> rootCAs # old.rootCAs \/ jwtSigningKeys # old.jwtSigningKeys,
         err |-> IF rootCAs = {} THEN "would prune all certificates"
                 ELSE IF jwtSigningKeys = {} THEN "would prune all JWT signing keys"
                 ELSE ""]

\* ------------------------------------------------------------ actions
\* kmDownFrom, kmDownUntil: the key manager is down from the one time until
\* the other (FarFuture: for good).  clockTicks: how many readings of the
\* Clock fall within one unit of the journal's times.
NoUpstream ==
    [upstreamCA |-> FALSE, upstreamBundle |-> FALSE, upstreamTTL |-> DefaultCATTL,
     kmDownFrom |-> FarFuture, kmDownUntil |-> FarFuture,
     clockTicks |-> 1]
UpstreamJoined ==
    [upstreamCA |-> TRUE, upstreamBundle |-> TRUE, upstreamTTL |-> DefaultCATTL,
     kmDownFrom |-> FarFuture, kmDownUntil |-> FarFuture,
     clockTicks |-> 1]
\* An upstream that is not joined, and whose certificates are already expired
\* when it issues them.
UpstreamExpired ==
    [upstreamCA |-> TRUE, upstreamBundle |-> FALSE, upstreamTTL |-> 0 - 2,
     kmDownFrom |-> FarFuture, kmDownUntil |-> FarFuture,
     clockTicks |-> 1]
\* The key manager goes down right after the first start.
KeyManagerOutage == [NoUpstream EXCEPT !.kmDownFrom = 1]
\* The key manager is down from the time the first next slots are due until
\* after the first current slots have crossed their activation thresholds.
KeyManagerDownAWhile ==
    [NoUpstream EXCEPT !.kmDownFrom = preparationThreshold(0, DefaultCATTL) + 1,
                       !.kmDownUntil = activationThreshold(0, DefaultCATTL) + 2]

\* The deployments the server is followed through from its first start: the
\* configuration and what the datastore holds.
Deployments ==
    { [cfg |-> NoUpstream, bundle |-> NoBundle],
      [cfg |-> NoUpstream, bundle |-> LegacyBundle],
      [cfg |-> UpstreamJoined, bundle |-> NoBundle],
      [cfg |-> KeyManagerOutage, bundle |-> LegacyBundle] }

Init ==
    /\ now = 0
    /\ \E d \in Deployments : cfg = d.cfg /\ bundle = d.bundle
    /\ km = [id \in KmKeyIDs |-> 0]
    /\ journal = [x509CAs |-> <<>>, jwtKeys |-> <<>>]
    /\ appended = EmptyBundle
    /\ restarts = 0
    /\ failures = 0
    /\ passed = FALSE
    /\ currentX509CA = NoSlot /\ nextX509CA = NoSlot
    /\ currentJWTKey = NoSlot /\ nextJWTKey = NoSlot
    /\ pcRot = "init" /\ rotNow = 0
    /\ x509CAErr = FALSE /\ jwtKeyErr = FALSE
    /\ initialized = FALSE /\ coldStart = FALSE /\ ticked = FALSE
    /\ x509Sets = <<>> /\ jwtSets = <<>>
    /\ pcPrune = "idle" /\ pruneNow = 0 /\ oldBundle = NoBundle
    /\ pruneResult = "none"
    /\ steps = <<>>
    /\ ctxDone = FALSE /\ runResult = "none"
    /\ signCase = NoSignCase /\ signResult = NoSignResult
    /\ reloaded = NoReload
    /\ pruned = 0
    /\ slotCase = NoSlotCase /\ slotResult = NoSlotResult

\* The loops of Run are alive: Initialize has returned nil and the process
\* has not died.
Running == initialized /\ pcRot \notin {"init", "failed", "crashed"}

\* A backend call may fail while the budget of failures lasts; the key manager
\* fails every call once it is down.
Outcomes == IF failures < MaxFailures THEN BOOLEAN ELSE {TRUE}
KmDown == now >= cfg.kmDownFrom /\ now < cfg.kmDownUntil
KmOutcomes == IF KmDown THEN {FALSE} ELSE Outcomes
Failed(bad) == failures' = IF bad /\ failures < MaxFailures THEN failures + 1 ELSE failures

\* The clock advances by one unit.  A unit is four hours, rotateInterval is one
\* minute and a pass takes seconds: the rotation ticker fires within every
\* unit in which the loop waits for it, and the clock crosses no unit boundary
\* while a rotation pass or a prune pass runs.  The first start is at time 0;
\* a dead process sees no time.
Tick ==
    /\ now < MaxTime
    /\ \/ pcRot = "idle" /\ passed
       \/ pcRot = "init" /\ restarts > 0
    /\ pcPrune = "idle"
    /\ now' = now + 1
    /\ passed' = FALSE
    /\ UNCHANGED <<cfg, km, bundle, journal, currentX509CA, nextX509CA, currentJWTKey,
                   nextJWTKey, pcRot, rotNow, x509CAErr, jwtKeyErr, initialized,
                   coldStart, ticked, x509Sets, jwtSets, pcPrune, pruneNow, oldBundle,
                   pruneResult, appended, restarts, failures>>
    /\ UNCHANGED steps
    /\ UNCHANGED <<ctxDone, runResult, signCase, signResult, reloaded, pruned>>
    /\ UNCHANGED <<slotCase, slotResult>>

\* The server process stops (or dies) and is started again: memory is lost,
\* the key manager, the datastore and the journal are kept.  A stop in the
\* middle of a prune pass leaves what a stop before that pass leaves.
Restart ==
    /\ restarts < MaxRestarts
    /\ pcRot # "init"
    /\ pcPrune = "idle"
    /\ restarts' = restarts + 1
    /\ currentX509CA' = NoSlot /\ nextX509CA' = NoSlot
    /\ currentJWTKey' = NoSlot /\ nextJWTKey' = NoSlot
    /\ pcRot' = "init" /\ rotNow' = 0
    /\ x509CAErr' = FALSE /\ jwtKeyErr' = FALSE
    /\ initialized' = FALSE /\ coldStart' = FALSE /\ ticked' = FALSE
    /\ x509Sets' = <<>> /\ jwtSets' = <<>>
    /\ pcPrune' = "idle" /\ pruneNow' = 0 /\ oldBundle' = NoBundle
    /\ pruneResult' = "none"
    /\ passed' = FALSE
    /\ UNCHANGED <<now, cfg, km, bundle, journal, appended, failures>>
    /\ steps' = <<>>
    /\ UNCHANGED <<ctxDone, runResult, signCase, signResult, reloaded, pruned>>
    /\ UNCHANGED <<slotCase, slotResult>>

\* Initialize, first half: loadJournal.  The X509 CA entries are loaded and the
\* recovered CA published before the JWT key entries are looked at.
loadJournal ==
    /\ pcRot = "init"
    /\ \E kmXLast, kmXPrev, kmJLast, kmJPrev \in KmOutcomes :
         LET x == loadJournal_x509(journal.x509CAs, kmXLast, kmXPrev)
             j == loadJournal_jwt(journal.jwtKeys, kmJLast, kmJPrev)
         IN  /\ Failed(x.err \/ j.err)
             /\ currentX509CA' = x.cur /\ nextX509CA' = x.nxt
             /\ IF x.err
                THEN /\ pcRot' = "failed"
                     /\ UNCHANGED <<currentJWTKey, nextJWTKey, x509Sets, jwtSets,
                                    coldStart>>
                ELSE /\ x509Sets' = IF /\ ~x509IsEmpty(x.cur)
                                       /\ ~x509ShouldActivateNext(x.cur, now)
                                    THEN <<activateX509CA(x.cur)>> ELSE <<>>
                     /\ currentJWTKey' = j.cur /\ nextJWTKey' = j.nxt
                     /\ IF j.err
                        THEN /\ pcRot' = "failed"
                             /\ UNCHANGED <<jwtSets, coldStart>>
                        ELSE /\ pcRot' = "xBegin"
                             /\ jwtSets' = IF /\ ~jwtIsEmpty(j.cur)
                                              /\ ~jwtShouldActivateNext(j.cur, now)
                                           THEN <<activateJWTKey(j.cur)>> ELSE <<>>
                             /\ coldStart' = (/\ journal.x509CAs = <<>>
                                              /\ journal.jwtKeys = <<>>
                                              /\ \A id \in KmKeyIDs : km[id] = 0)
    /\ passed' = TRUE
    /\ UNCHANGED <<now, cfg, km, bundle, journal, rotNow, x509CAErr, jwtKeyErr,
                   initialized, ticked, pcPrune, pruneNow, oldBundle, pruneResult,
                   appended, restarts>>
    /\ steps' = (IF x509Sets' # x509Sets THEN <<"SetX509CA">> ELSE <<>>)
                 \o (IF jwtSets' # jwtSets THEN <<"SetJWTKey">> ELSE <<>>)
    /\ UNCHANGED <<ctxDone, runResult, signCase, signResult, reloaded, pruned>>
    /\ UNCHANGED <<slotCase, slotResult>>

\* rotateEvery: the ticker fires and a rotation pass starts.
rotateEvery ==
    /\ pcRot = "idle"
    /\ pcRot' = "xBegin"
    /\ ticked' = TRUE
    /\ passed' = TRUE
    /\ UNCHANGED <<now, cfg, km, bundle, journal, currentX509CA, nextX509CA,
                   currentJWTKey, nextJWTKey, rotNow, x509CAErr, jwtKeyErr, initialized,
                   coldStart, x509Sets, jwtSets, pcPrune, pruneNow, oldBundle,
                   pruneResult, appended, restarts, failures>>
    /\ UNCHANGED steps
    /\ UNCHANGED <<ctxDone, runResult, signCase, signResult, reloaded, pruned>>
    /\ UNCHANGED <<slotCase, slotResult>>

\* rotate calls rotateX509CA: its now is read, and it runs up to its first
\* backend call.
rotateX509CA_begin ==
    /\ pcRot = "xBegin"
    /\ rotNow' = now
    /\ LET r == rotateX509CA_start(currentX509CA, nextX509CA, x509Sets, now)
       IN  /\ pcRot' = r.pc
           /\ currentX509CA' = r.cur /\ nextX509CA' = r.nxt /\ x509Sets' = r.sets
    /\ UNCHANGED <<now, cfg, km, bundle, journal, currentJWTKey, nextJWTKey,
                   x509CAErr, jwtKeyErr, initialized, coldStart, ticked, jwtSets,
                   pcPrune, pruneNow,
                   oldBundle, pruneResult, appended, restarts, failures, passed>>
    /\ steps' = IF x509Sets' # x509Sets THEN <<"SetX509CA">> ELSE <<>>
    /\ UNCHANGED <<ctxDone, runResult, signCase, signResult, reloaded, pruned>>
    /\ UNCHANGED <<slotCase, slotResult>>

\* lines 138-143 and what follows: prepare current, activate it, go on.
rotateX509CA_current ==
    /\ pcRot = "xCur"
    /\ FreshKeys # {}
    /\ \E kmOK \in KmOutcomes, dsOK \in Outcomes, jOK \in Outcomes, resp \in SubmitCSRAnswers :
         LET p == prepareX509CA(currentX509CA, kmOK, resp, dsOK, jOK)
             r == IF p.err
                  THEN [pc |-> "jBegin", cur |-> p.slot, nxt |-> nextX509CA,
                        sets |-> x509Sets]
                  ELSE rotateX509CA_afterCurrent(p.slot, nextX509CA,
                            Append(x509Sets, activateX509CA(p.slot)), rotNow)
         IN  /\ p.err => (failures < MaxFailures \/ KmDown)
             /\ Failed(p.err \/ ~jOK)
             /\ pcRot' = r.pc
             /\ currentX509CA' = r.cur /\ nextX509CA' = r.nxt /\ x509Sets' = r.sets
             /\ x509CAErr' = p.err
             /\ km' = p.km /\ bundle' = p.bundle /\ journal' = p.journal
             /\ appended' = p.appended
             /\ steps' = p.steps \o (IF r.sets # x509Sets THEN <<"SetX509CA">> ELSE <<>>)
    /\ UNCHANGED <<now, cfg, currentJWTKey, nextJWTKey, rotNow, jwtKeyErr, initialized,
                   coldStart, ticked, jwtSets, pcPrune, pruneNow, oldBundle,
                   pruneResult, restarts, passed>>
    /\ UNCHANGED <<ctxDone, runResult, signCase, signResult, reloaded, pruned>>
    /\ UNCHANGED <<slotCase, slotResult>>

\* lines 147-157: prepare next, then the swap.
rotateX509CA_next ==
    /\ pcRot = "xNext"
    /\ FreshKeys # {}
    /\ \E kmOK \in KmOutcomes, dsOK \in Outcomes, jOK \in Outcomes, resp \in SubmitCSRAnswers :
         LET p == prepareX509CA(nextX509CA, kmOK, resp, dsOK, jOK)
             r == IF p.err
                  THEN [pc |-> "jBegin", cur |-> currentX509CA, nxt |-> p.slot,
                        sets |-> x509Sets]
                  ELSE rotateX509CA_swap(currentX509CA, p.slot, x509Sets, rotNow)
         IN  /\ p.err => (failures < MaxFailures \/ KmDown)
             /\ Failed(p.err \/ ~jOK)
             /\ pcRot' = r.pc
             /\ currentX509CA' = r.cur /\ nextX509CA' = r.nxt /\ x509Sets' = r.sets
             /\ x509CAErr' = p.err
             /\ km' = p.km /\ bundle' = p.bundle /\ journal' = p.journal
             /\ appended' = p.appended
             /\ steps' = p.steps \o (IF r.sets # x509Sets THEN <<"SetX509CA">> ELSE <<>>)
    /\ UNCHANGED <<now, cfg, currentJWTKey, nextJWTKey, rotNow, jwtKeyErr, initialized,
                   coldStart, ticked, jwtSets, pcPrune, pruneNow, oldBundle,
                   pruneResult, restarts, passed>>
    /\ UNCHANGED <<ctxDone, runResult, signCase, signResult, reloaded, pruned>>
    /\ UNCHANGED <<slotCase, slotResult>>

\* rotate calls rotateJWTKey: its now is read, and it runs up to its first
\* backend call; with none to make, the pass ends here.
rotateJWTKey_begin ==
    /\ pcRot = "jBegin"
    /\ rotNow' = now
    /\ LET r == rotateJWTKey_start(currentJWTKey, nextJWTKey, jwtSets, now)
       IN  /\ pcRot' = r.pc
           /\ currentJWTKey' = r.cur /\ nextJWTKey' = r.nxt /\ jwtSets' = r.sets
    /\ UNCHANGED <<now, cfg, km, bundle, journal, currentX509CA, nextX509CA, x509CAErr,
                   jwtKeyErr, initialized, coldStart, ticked, x509Sets, pcPrune, pruneNow,
                   oldBundle, pruneResult, appended, restarts, failures, passed>>
    /\ steps' = IF jwtSets' # jwtSets THEN <<"SetJWTKey">> ELSE <<>>
    /\ UNCHANGED <<ctxDone, runResult, signCase, signResult, reloaded, pruned>>
    /\ UNCHANGED <<slotCase, slotResult>>

rotateJWTKey_current ==
    /\ pcRot = "jCur"
    /\ FreshKeys # {}
    /\ \E kmOK \in KmOutcomes, dsOK \in Outcomes, jOK \in Outcomes :
         LET p == prepareJWTKey(currentJWTKey, kmOK, dsOK, jOK)
             r == IF p.err
                  THEN [pc |-> "end", cur |-> p.slot, nxt |-> nextJWTKey,
                        sets |-> jwtSets]
                  ELSE rotateJWTKey_afterCurrent(p.slot, nextJWTKey,
                            Append(jwtSets, activateJWTKey(p.slot)), rotNow)
         IN  /\ Failed(p.err \/ ~jOK)
             /\ pcRot' = r.pc
             /\ currentJWTKey' = r.cur /\ nextJWTKey' = r.nxt /\ jwtSets' = r.sets
             /\ jwtKeyErr' = p.err
             /\ km' = p.km /\ bundle' = p.bundle /\ journal' = p.journal
             /\ appended' = p.appended
             /\ steps' = p.steps \o (IF r.sets # jwtSets THEN <<"SetJWTKey">> ELSE <<>>)
    /\ UNCHANGED <<now, cfg, currentX509CA, nextX509CA, rotNow, x509CAErr,
                   initialized, coldStart, ticked, x509Sets, pcPrune, pruneNow,
                   oldBundle, pruneResult, restarts, passed>>
    /\ UNCHANGED <<ctxDone, runResult, signCase, signResult, reloaded, pruned>>
    /\ UNCHANGED <<slotCase, slotResult>>

rotateJWTKey_next ==
    /\ pcRot = "jNext"
    /\ FreshKeys # {}
    /\ \E kmOK \in KmOutcomes, dsOK \in Outcomes, jOK \in Outcomes :
         LET p == prepareJWTKey(nextJWTKey, kmOK, dsOK, jOK)
             r == IF p.err
                  THEN [pc |-> "end", cur |-> currentJWTKey, nxt |-> p.slot,
                        sets |-> jwtSets]
                  ELSE rotateJWTKey_swap(currentJWTKey, p.slot, jwtSets, rotNow)
         IN  /\ Failed(p.err \/ ~jOK)
             /\ pcRot' = r.pc
             /\ currentJWTKey' = r.cur /\ nextJWTKey' = r.nxt /\ jwtSets' = r.sets
             /\ jwtKeyErr' = p.err
             /\ km' = p.km /\ bundle' = p.bundle /\ journal' = p.journal
             /\ appended' = p.appended
             /\ steps' = p.steps \o (IF r.sets # jwtSets THEN <<"SetJWTKey">> ELSE <<>>)
    /\ UNCHANGED <<now, cfg, currentX509CA, nextX509CA, rotNow, x509CAErr,
                   initialized, coldStart, ticked, x509Sets, pcPrune, pruneNow,
                   oldBundle, pruneResult, restarts, passed>>
    /\ UNCHANGED <<ctxDone, runResult, signCase, signResult, reloaded, pruned>>
    /\ UNCHANGED <<slotCase, slotResult>>

\* errs.Combine of the two kinds' errors: none when both are nil.
NoError == [nil |-> TRUE]
errsCombine_first(x509CAError, jwtKeyError) ==
    IF ~x509CAError THEN NoError
    ELSE [x509CAErr |-> x509CAError, jwtKeyErr |-> jwtKeyError]
errsCombine(x509CAError, jwtKeyError) ==
    IF ~x509CAError /\ ~jwtKeyError THEN NoError
    ELSE [x509CAErr |-> x509CAError, jwtKeyErr |-> jwtKeyError]

\* A variant of rotate_return that the properties below must tell from it:
\* the rotation loop too stops at an error.
rotate_return_fatal ==
    /\ pcRot = "end"
    /\ pcRot' = IF errsCombine(x509CAErr, jwtKeyErr) # NoError THEN "failed" ELSE "idle"
    /\ initialized' = (initialized \/ errsCombine(x509CAErr, jwtKeyErr) = NoError)
    /\ x509CAErr' = FALSE /\ jwtKeyErr' = FALSE
    /\ UNCHANGED <<now, cfg, km, bundle, journal, currentX509CA, nextX509CA,
                   currentJWTKey, nextJWTKey, rotNow, coldStart, ticked, x509Sets,
                   jwtSets, pcPrune, pruneNow, oldBundle, pruneResult, appended,
                   restarts, failures, passed>>
    /\ steps' = <<>>
    /\ UNCHANGED <<ctxDone, runResult, signCase, signResult, reloaded, pruned>>
    /\ UNCHANGED <<slotCase, slotResult>>

\* rotate returns its combined error.  Initialize returns it (with an error
\* the server does not start); rotateEvery drops it and waits for the ticker.
rotate_return ==
    /\ pcRot = "end"
    /\ pcRot' = IF ~initialized /\ errsCombine(x509CAErr, jwtKeyErr) # NoError
                THEN "failed" ELSE "idle"
    /\ initialized' = (initialized \/ errsCombine(x509CAErr, jwtKeyErr) = NoError)
    /\ x509CAErr' = FALSE /\ jwtKeyErr' = FALSE
    /\ UNCHANGED <<now, cfg, km, bundle, journal, currentX509CA, nextX509CA,
                   currentJWTKey, nextJWTKey, rotNow, coldStart, ticked, x509Sets,
                   jwtSets, pcPrune, pruneNow, oldBundle, pruneResult, appended,
                   restarts, failures, passed>>
    /\ steps' = <<>>
    /\ UNCHANGED <<ctxDone, runResult, signCase, signResult, reloaded, pruned>>
    /\ UNCHANGED <<slotCase, slotResult>>

\* pruneBundleEvery: the ticker fires; pruneBundle reads the clock, calls
\* FetchBundle and filters what it got (lines 321-375).  It returns here
\* unless there is something to write.
pruneBundle_fetch ==
    /\ Running
    /\ pcPrune = "idle"
    /\ \E dsOK \in Outcomes :
         LET f == pruneBundle_filter(bundle, now - safetyThreshold)
             r == IF ~dsOK THEN "fetch failed"
                  ELSE IF bundle = NoBundle THEN "no bundle"
                  ELSE IF f.err # "" THEN f.err
                  ELSE IF ~f.changed THEN "unchanged"
                  ELSE "none"
         IN  /\ Failed(~dsOK)
             /\ pruneResult' = r
             /\ pcPrune' = IF r # "none" THEN "returned" ELSE "update"
             /\ oldBundle' = IF dsOK THEN bundle ELSE NoBundle
             /\ pruneNow' = now - safetyThreshold
    /\ UNCHANGED <<now, cfg, km, bundle, journal, currentX509CA, nextX509CA,
                   currentJWTKey, nextJWTKey, pcRot, rotNow, x509CAErr, jwtKeyErr,
                   initialized, coldStart, ticked, x509Sets, jwtSets,
                   appended, restarts, passed>>
    /\ UNCHANGED steps
    /\ UNCHANGED <<ctxDone, runResult, signCase, signResult, reloaded, pruned>>
    /\ UNCHANGED <<slotCase, slotResult>>

\* pruneBundle, lines 377-388: the filter has changed the bundle that was
\* fetched; the manager.bundle.pruned counter is incremented, then UpdateBundle
\* is called with what the filter kept.
pruneBundle_update ==
    /\ Running
    /\ pcPrune = "update"
    /\ pcPrune' = "returned"
    /\ pruned' = pruned + 1
    /\ \E dsOK \in Outcomes :
         /\ Failed(~dsOK)
         /\ IF dsOK
            THEN /\ pruneResult' = "updated"
                 /\ bundle' = dsUpdateBundle(bundle, pruneBundle_filter(oldBundle, pruneNow).newBundle)
            ELSE /\ pruneResult' = "write failed"
                 /\ bundle' = bundle
    /\ UNCHANGED <<now, cfg, km, journal, currentX509CA, nextX509CA, currentJWTKey,
                   nextJWTKey, pcRot, rotNow, x509CAErr, jwtKeyErr, initialized,
                   coldStart, ticked, x509Sets, jwtSets, pruneNow, oldBundle, appended,
                   restarts, passed>>
    /\ UNCHANGED steps
    /\ UNCHANGED <<ctxDone, runResult, signCase, signResult, reloaded>>
    /\ UNCHANGED <<slotCase, slotResult>>

\* pruneBundleEvery, lines 298-300: pruneBundle has returned and its locals
\* are gone; an error is logged, and the loop waits for the ticker.
pruneBundleEvery_wait ==
    /\ pcPrune = "returned"
    /\ pcPrune' = "idle"
    /\ pruneResult' = "none"
    /\ oldBundle' = NoBundle
    /\ pruneNow' = 0
    /\ UNCHANGED <<now, cfg, km, bundle, journal, currentX509CA, nextX509CA,
                   currentJWTKey, nextJWTKey, pcRot, rotNow, x509CAErr, jwtKeyErr,
                   initialized, coldStart, ticked, x509Sets, jwtSets,
                   appended, restarts, failures, passed>>
    /\ UNCHANGED steps
    /\ UNCHANGED <<ctxDone, runResult, signCase, signResult, reloaded, pruned>>
    /\ UNCHANGED <<slotCase, slotResult>>

Next ==
    \/ Tick
    \/ Restart
    \/ loadJournal
    \/ rotateEvery
    \/ rotateX509CA_begin
    \/ rotateX509CA_current
    \/ rotateX509CA_next
    \/ rotateJWTKey_begin
    \/ rotateJWTKey_current
    \/ rotateJWTKey_next
    \/ rotate_return
    \/ pruneBundle_fetch
    \/ pruneBundle_update
    \/ pruneBundleEvery_wait

Spec == Init /\ [][Next]_vars

\* ------------------------------------------------------------ Initialize alone
\* Initialize (loadJournal, then one rotation pass) from what a start may find:
\* nothing at all, under any configuration; or the journal, key and bundle
\* left by an earlier run that prepared an X509 CA and a JWT key in slot A,
\* with any issuedAt and lifetime (the clock may have been set back since), at
\* any time.  The lifetimes are those whose thresholds the clock's unit
\* compares exactly: the default one, and none or less.
Lifetimes == ((0 - DefaultCATTL \div 2)..0) \cup {DefaultCATTL}

ColdStarts ==
    { [cfg |-> c, now |-> 0, bundle |-> NoBundle, km |-> [id \in KmKeyIDs |-> 0],
       journal |-> [x509CAs |-> <<>>, jwtKeys |-> <<>>]] :
      c \in {NoUpstream, UpstreamJoined, UpstreamExpired} }

WarmStart(issuedAt, lifetime, t) ==
    LET cert == Cert(1, issuedAt + lifetime)
        jwtKey == newJWTKey(2, 2, issuedAt + lifetime)
    IN  [cfg |-> NoUpstream, now |-> t,
         bundle |-> [rootCAs |-> {<<cert>>},
                     jwtSigningKeys |-> {publicKeyFromJWTKey(jwtKey)}],
         km |-> [id \in KmKeyIDs |-> IF id = x509CAKmKeyId("A") THEN 1
                                     ELSE IF id = jwtKeyKmKeyId("A") THEN 2 ELSE 0],
         journal |-> [x509CAs |-> <<[slotId |-> "A", issuedAt |-> issuedAt,
                                     chain |-> <<cert>>, isIntermediate |-> FALSE]>>,
                      jwtKeys |-> <<[slotId |-> "A", issuedAt |-> issuedAt,
                                     notAfter |-> jwtKey.notAfter, kid |-> jwtKey.kid,
                                     publicKey |-> jwtKey.signer]>>]]

WarmStarts ==
    {WarmStart(i, l, t) : i \in 0..MaxTime, l \in Lifetimes, t \in 0..MaxTime}

\* A start with the journal of an earlier run that prepared slot A and then
\* slot B of each kind, after which the key manager may have lost any of the
\* four keys (heldX, heldJ: the slot ids whose keys it still holds).
RotatedStart(heldX, heldJ, t) ==
    LET certA == Cert(1, DefaultCATTL)
        certB == Cert(3, DefaultCATTL + DefaultCATTL \div 2)
        jwtA == newJWTKey(2, 2, DefaultCATTL)
        jwtB == newJWTKey(4, 4, DefaultCATTL + DefaultCATTL \div 2)
    IN  [cfg |-> NoUpstream, now |-> t,
         bundle |-> [rootCAs |-> {<<certA>>, <<certB>>},
                     jwtSigningKeys |-> {publicKeyFromJWTKey(jwtA),
                                         publicKeyFromJWTKey(jwtB)}],
         km |-> [id \in KmKeyIDs |->
                   IF id = x509CAKmKeyId("A") /\ "A" \in heldX THEN 1
                   ELSE IF id = x509CAKmKeyId("B") /\ "B" \in heldX THEN 3
                   ELSE IF id = jwtKeyKmKeyId("A") /\ "A" \in heldJ THEN 2
                   ELSE IF id = jwtKeyKmKeyId("B") /\ "B" \in heldJ THEN 4
                   ELSE 0],
         journal |-> [x509CAs |-> <<[slotId |-> "A", issuedAt |-> 0,
                                     chain |-> <<certA>>, isIntermediate |-> FALSE],
                                    [slotId |-> "B", issuedAt |-> DefaultCATTL \div 2,
                                     chain |-> <<certB>>, isIntermediate |-> FALSE]>>,
                      jwtKeys |-> <<[slotId |-> "A", issuedAt |-> 0,
                                     notAfter |-> jwtA.notAfter, kid |-> jwtA.kid,
                                     publicKey |-> jwtA.signer],
                                    [slotId |-> "B", issuedAt |-> DefaultCATTL \div 2,
                                     notAfter |-> jwtB.notAfter, kid |-> jwtB.kid,
                                     publicKey |-> jwtB.signer]>>]]

RotatedStarts ==
    {RotatedStart(hx, hj, t) : hx \in SUBSET SlotIDs, hj \in SUBSET SlotIDs,
                               t \in (DefaultCATTL \div 2)..MaxTime}

\* A start with that journal where some of the last two entries of a kind do
\* not parse (corrupt: which of them).
CorruptEntries == {"x509 last", "x509 prev", "jwt last", "jwt prev"}
Corrupted(start, corrupt) ==
    LET x509(e, which) == IF which \in corrupt
                          THEN [e EXCEPT !.chain = Append(@, CorruptDER)] ELSE e
        jwt(e, which) == IF which \in corrupt
                         THEN [e EXCEPT !.publicKey = CorruptPKIX] ELSE e
    IN  [start EXCEPT !.journal =
            [x509CAs |-> <<x509(@.x509CAs[1], "x509 prev"), x509(@.x509CAs[2], "x509 last")>>,
             jwtKeys |-> <<jwt(@.jwtKeys[1], "jwt prev"), jwt(@.jwtKeys[2], "jwt last")>>]]

CorruptStarts ==
    {Corrupted(RotatedStart(hx, hj, DefaultCATTL \div 2), c) :
        hx \in SUBSET SlotIDs, hj \in SUBSET SlotIDs,
        c \in (SUBSET CorruptEntries) \ {{}}}

InitStart ==
    /\ \E s \in ColdStarts \cup WarmStarts \cup RotatedStarts \cup CorruptStarts :
         /\ cfg = s.cfg /\ now = s.now /\ bundle = s.bundle /\ km = s.km
         /\ journal = s.journal
         /\ appended = IF s.bundle = NoBundle THEN EmptyBundle ELSE s.bundle
    /\ restarts = 0
    /\ failures = 0
    /\ passed = FALSE
    /\ currentX509CA = NoSlot /\ nextX509CA = NoSlot
    /\ currentJWTKey = NoSlot /\ nextJWTKey = NoSlot
    /\ pcRot = "init" /\ rotNow = 0
    /\ x509CAErr = FALSE /\ jwtKeyErr = FALSE
    /\ initialized = FALSE /\ coldStart = FALSE /\ ticked = FALSE
    /\ x509Sets = <<>> /\ jwtSets = <<>>
    /\ pcPrune = "idle" /\ pruneNow = 0 /\ oldBundle = NoBundle
    /\ pruneResult = "none"
    /\ steps = <<>>
    /\ ctxDone = FALSE /\ runResult = "none"
    /\ signCase = NoSignCase /\ signResult = NoSignResult
    /\ reloaded = NoReload
    /\ pruned = 0
    /\ slotCase = NoSlotCase /\ slotResult = NoSlotResult

Initialize ==
    \/ loadJournal
    \/ rotateX509CA_begin
    \/ rotateX509CA_current
    \/ rotateX509CA_next
    \/ rotateJWTKey_begin
    \/ rotateJWTKey_current
    \/ rotateJWTKey_next
    \/ rotate_return

SpecInitialize == InitStart /\ [][Initialize]_vars

\* ------------------------------------------------------------ shutdown
\* The caller cancels the context Run was called with.
Cancel ==
    /\ Running
    /\ ~ctxDone
    /\ ctxDone' = TRUE
    /\ UNCHANGED <<now, cfg, km, bundle, journal, currentX509CA, nextX509CA,
                   currentJWTKey, nextJWTKey, pcRot, rotNow, x509CAErr, jwtKeyErr,
                   initialized, coldStart, ticked, x509Sets, jwtSets, pcPrune,
                   pruneNow, oldBundle, pruneResult, appended, restarts, failures,
                   passed, steps, runResult, signCase, signResult, reloaded, pruned>>
    /\ UNCHANGED <<slotCase, slotResult>>

\* rotateEvery's select takes the ctx.Done() case: the loop returns nil.
rotateEvery_done ==
    /\ pcRot = "idle"
    /\ ctxDone
    /\ pcRot' = "done"
    /\ UNCHANGED <<now, cfg, km, bundle, journal, currentX509CA, nextX509CA,
                   currentJWTKey, nextJWTKey, rotNow, x509CAErr, jwtKeyErr,
                   initialized, coldStart, ticked, x509Sets, jwtSets, pcPrune,
                   pruneNow, oldBundle, pruneResult, appended, restarts, failures,
                   passed, steps, ctxDone, runResult, signCase, signResult, reloaded, pruned>>
    /\ UNCHANGED <<slotCase, slotResult>>

\* pruneBundleEvery's select takes the ctx.Done() case: the loop returns nil.
pruneBundleEvery_done ==
    /\ Running
    /\ pcPrune = "idle"
    /\ ctxDone
    /\ pcPrune' = "done"
    /\ UNCHANGED <<now, cfg, km, bundle, journal, currentX509CA, nextX509CA,
                   currentJWTKey, nextJWTKey, pcRot, rotNow, x509CAErr, jwtKeyErr,
                   initialized, coldStart, ticked, x509Sets, jwtSets, pruneNow,
                   oldBundle, pruneResult, appended, restarts, failures, passed, steps,
                   ctxDone, runResult, signCase, signResult, reloaded, pruned>>
    /\ UNCHANGED <<slotCase, slotResult>>

\* What RunTasks may return once the context is done and both loops have
\* returned nil: nil, or the context's error.
RunTasksResults == {"nil", "context.Canceled"}

\* A variant of Run_result that the properties below must tell from it.
Run_result_asIs(err) == err

\* Run, lines 100-103: context.Canceled is turned into nil.
Run_result(err) == IF err = "context.Canceled" THEN "nil" ELSE err

\* Run returns, after both loops have.
Run_return ==
    /\ pcRot = "done" /\ pcPrune = "done"
    /\ runResult = "none"
    /\ \E err \in RunTasksResults : runResult' = Run_result(err)
    /\ UNCHANGED <<now, cfg, km, bundle, journal, currentX509CA, nextX509CA,
                   currentJWTKey, nextJWTKey, pcRot, rotNow, x509CAErr, jwtKeyErr,
                   initialized, coldStart, ticked, x509Sets, jwtSets, pcPrune,
                   pruneNow, oldBundle, pruneResult, appended, restarts, failures,
                   passed, steps, ctxDone, signCase, signResult, reloaded, pruned>>
    /\ UNCHANGED <<slotCase, slotResult>>

\* One run of the server without backend failures and without a restart, up
\* to the return of Run.
InitRun ==
    /\ now = 0
    /\ cfg = NoUpstream /\ bundle = LegacyBundle
    /\ km = [id \in KmKeyIDs |-> 0]
    /\ journal = [x509CAs |-> <<>>, jwtKeys |-> <<>>]
    /\ appended = EmptyBundle
    /\ restarts = MaxRestarts
    /\ failures = MaxFailures
    /\ passed = FALSE
    /\ currentX509CA = NoSlot /\ nextX509CA = NoSlot
    /\ currentJWTKey = NoSlot /\ nextJWTKey = NoSlot
    /\ pcRot = "init" /\ rotNow = 0
    /\ x509CAErr = FALSE /\ jwtKeyErr = FALSE
    /\ initialized = FALSE /\ coldStart = FALSE /\ ticked = FALSE
    /\ x509Sets = <<>> /\ jwtSets = <<>>
    /\ pcPrune = "idle" /\ pruneNow = 0 /\ oldBundle = NoBundle
    /\ pruneResult = "none"
    /\ steps = <<>>
    /\ ctxDone = FALSE /\ runResult = "none"
    /\ signCase = NoSignCase /\ signResult = NoSignResult
    /\ reloaded = NoReload
    /\ pruned = 0
    /\ slotCase = NoSlotCase /\ slotResult = NoSlotResult

NextRun ==
    \/ Tick
    \/ loadJournal
    \/ rotateEvery
    \/ rotateX509CA_begin
    \/ rotateX509CA_current
    \/ rotateX509CA_next
    \/ rotateJWTKey_begin
    \/ rotateJWTKey_current
    \/ rotateJWTKey_next
    \/ rotate_return
    \/ pruneBundle_fetch
    \/ pruneBundle_update
    \/ pruneBundleEvery_wait
    \/ Cancel
    \/ rotateEvery_done
    \/ pruneBundleEvery_done
    \/ Run_return

\* A pass that has started runs to its end (the backends answer); a select
\* with the ctx.Done() case ready again and again takes it in the end (Go
\* chooses among the ready cases at random); Run returns once it can.
FairRun ==
    /\ WF_vars(rotateX509CA_begin) /\ WF_vars(rotateX509CA_current)
    /\ WF_vars(rotateX509CA_next) /\ WF_vars(rotateJWTKey_begin)
    /\ WF_vars(rotateJWTKey_current) /\ WF_vars(rotateJWTKey_next)
    /\ WF_vars(rotate_return)
    /\ WF_vars(pruneBundle_update) /\ WF_vars(pruneBundleEvery_wait)
    /\ SF_vars(rotateEvery_done) /\ SF_vars(pruneBundleEvery_done)
    /\ WF_vars(Run_return)

SpecRun == InitRun /\ [][NextRun]_vars /\ FairRun

\* ------------------------------------------------------------ rotation with failures
\* The rotation loop of a server that starts cold and is not stopped, with
\* backends whose calls fail now and then (while the budget of failures
\* lasts) and succeed in the end.
InitRetry ==
    /\ now = 0
    /\ \E c \in {NoUpstream, UpstreamJoined, KeyManagerDownAWhile} : cfg = c
    /\ bundle = NoBundle
    /\ km = [id \in KmKeyIDs |-> 0]
    /\ journal = [x509CAs |-> <<>>, jwtKeys |-> <<>>]
    /\ appended = EmptyBundle
    /\ restarts = MaxRestarts
    /\ failures = 0
    /\ passed = FALSE
    /\ currentX509CA = NoSlot /\ nextX509CA = NoSlot
    /\ currentJWTKey = NoSlot /\ nextJWTKey = NoSlot
    /\ pcRot = "init" /\ rotNow = 0
    /\ x509CAErr = FALSE /\ jwtKeyErr = FALSE
    /\ initialized = FALSE /\ coldStart = FALSE /\ ticked = FALSE
    /\ x509Sets = <<>> /\ jwtSets = <<>>
    /\ pcPrune = "idle" /\ pruneNow = 0 /\ oldBundle = NoBundle
    /\ pruneResult = "none"
    /\ steps = <<>>
    /\ ctxDone = FALSE /\ runResult = "none"
    /\ signCase = NoSignCase /\ signResult = NoSignResult
    /\ reloaded = NoReload
    /\ pruned = 0
    /\ slotCase = NoSlotCase /\ slotResult = NoSlotResult

NextRetry ==
    \/ Tick
    \/ loadJournal
    \/ rotateEvery
    \/ rotateX509CA_begin
    \/ rotateX509CA_current
    \/ rotateX509CA_next
    \/ rotateJWTKey_begin
    \/ rotateJWTKey_current
    \/ rotateJWTKey_next
    \/ rotate_return

\* The rotation ticker keeps firing, and a pass that has started runs to its
\* end (the backends answer, with an error or without); time goes by between
\* passes, up to the horizon.
FairRetry ==
    /\ WF_vars(rotateEvery)
    /\ SF_vars(Tick)
    /\ WF_vars(rotateX509CA_begin) /\ WF_vars(rotateX509CA_current)
    /\ WF_vars(rotateX509CA_next) /\ WF_vars(rotateJWTKey_begin)
    /\ WF_vars(rotateJWTKey_current) /\ WF_vars(rotateJWTKey_next)
    /\ WF_vars(rotate_return)

SpecRetry == InitRetry /\ [][NextRetry]_vars /\ FairRetry

\* ------------------------------------------------------------ journal round trip
\* A cold start under a Clock that tells TicksPerSecond readings apart within
\* a second, at any reading; once Initialize has returned, the last journal
\* entry of each kind is loaded as recovery would load it.
TicksPerSecond == 2

InitJournal ==
    /\ now \in 0..MaxTime
    /\ \E c \in {NoUpstream, UpstreamJoined} : cfg = [c EXCEPT !.clockTicks = TicksPerSecond]
    /\ bundle = NoBundle
    /\ km = [id \in KmKeyIDs |-> 0]
    /\ journal = [x509CAs |-> <<>>, jwtKeys |-> <<>>]
    /\ appended = EmptyBundle
    /\ restarts = MaxRestarts
    /\ failures = 0
    /\ passed = FALSE
    /\ currentX509CA = NoSlot /\ nextX509CA = NoSlot
    /\ currentJWTKey = NoSlot /\ nextJWTKey = NoSlot
    /\ pcRot = "init" /\ rotNow = 0
    /\ x509CAErr = FALSE /\ jwtKeyErr = FALSE
    /\ initialized = FALSE /\ coldStart = FALSE /\ ticked = FALSE
    /\ x509Sets = <<>> /\ jwtSets = <<>>
    /\ pcPrune = "idle" /\ pruneNow = 0 /\ oldBundle = NoBundle
    /\ pruneResult = "none"
    /\ steps = <<>>
    /\ ctxDone = FALSE /\ runResult = "none"
    /\ signCase = NoSignCase /\ signResult = NoSignResult
    /\ reloaded = NoReload
    /\ pruned = 0
    /\ slotCase = NoSlotCase /\ slotResult = NoSlotResult

\* The journal's last entry of each kind goes through loadX509CASlotFromEntry
\* and loadJWTKeySlotFromEntry, with a key manager that answers.
loadLastEntries ==
    /\ pcRot = "idle" /\ initialized
    /\ reloaded = NoReload
    /\ pruned = 0
    /\ slotCase = NoSlotCase /\ slotResult = NoSlotResult
    /\ journal.x509CAs # <<>> /\ journal.jwtKeys # <<>>
    /\ reloaded' =
         [x509CA |-> loadX509CASlotFromEntry(journal.x509CAs[Len(journal.x509CAs)], TRUE),
          jwtKey |-> loadJWTKeySlotFromEntry(journal.jwtKeys[Len(journal.jwtKeys)], TRUE)]
    /\ UNCHANGED <<now, cfg, km, bundle, journal, currentX509CA, nextX509CA,
                   currentJWTKey, nextJWTKey, pcRot, rotNow, x509CAErr, jwtKeyErr,
                   initialized, coldStart, ticked, x509Sets, jwtSets, pcPrune,
                   pruneNow, oldBundle, pruneResult, appended, restarts, failures,
                   passed, steps, ctxDone, runResult, signCase, signResult, pruned>>
    /\ UNCHANGED <<slotCase, slotResult>>

NextJournal ==
    \/ loadJournal
    \/ rotateX509CA_begin
    \/ rotateX509CA_current
    \/ rotateJWTKey_begin
    \/ rotateJWTKey_current
    \/ rotate_return
    \/ loadLastEntries

SpecJournal == InitJournal /\ [][NextJournal]_vars

\* ------------------------------------------------------------ signing calls
\* One call of the signing primitives on arguments of every shape: the
\* upstream's certificates are drawn from a pool of three, its chains and
\* bundles are bounded in length, and a current-shape response carries at
\* least the signed certificate.
MaxBundleLen == 3
UpstreamPool == {UpstreamIntermediate, UpstreamRoot, Cert(0 - 7, FarFuture)}
SeqsUpTo(S, n) == UNION {[1..m -> S] : m \in 0..n}

SignResponses(k, t) ==
    { [signed |-> TRUE, certChain |-> <<Cert(k, t)>> \o c, bundle |-> b] :
        c \in SeqsUpTo(UpstreamPool, 1), b \in SeqsUpTo(UpstreamPool, 1) }
    \cup { [signed |-> FALSE, cert |-> Cert(k, t), upstreamTrustBundle |-> b] :
             b \in SeqsUpTo(UpstreamPool, MaxBundleLen) }
    \cup {SignError}

SignCases ==
    [signer : {1}, upstreamCA : BOOLEAN, upstreamBundle : BOOLEAN,
     resp : SignResponses(1, DefaultCATTL + 1), notAfter : {DefaultCATTL}]

InitSign ==
    /\ signCase \in SignCases
    /\ signResult = NoSignResult
    /\ reloaded = NoReload
    /\ pruned = 0
    /\ slotCase = NoSlotCase /\ slotResult = NoSlotResult
    /\ cfg = [upstreamCA |-> signCase.upstreamCA, upstreamBundle |-> signCase.upstreamBundle,
              upstreamTTL |-> DefaultCATTL, kmDownFrom |-> FarFuture, kmDownUntil |-> FarFuture,
     clockTicks |-> 1]
    /\ now = 0
    /\ bundle = NoBundle
    /\ km = [id \in KmKeyIDs |-> 0]
    /\ journal = [x509CAs |-> <<>>, jwtKeys |-> <<>>]
    /\ appended = EmptyBundle
    /\ restarts = 0
    /\ failures = 0
    /\ passed = FALSE
    /\ currentX509CA = NoSlot /\ nextX509CA = NoSlot
    /\ currentJWTKey = NoSlot /\ nextJWTKey = NoSlot
    /\ pcRot = "init" /\ rotNow = 0
    /\ x509CAErr = FALSE /\ jwtKeyErr = FALSE
    /\ initialized = FALSE /\ coldStart = FALSE /\ ticked = FALSE
    /\ x509Sets = <<>> /\ jwtSets = <<>>
    /\ pcPrune = "idle" /\ pruneNow = 0 /\ oldBundle = NoBundle
    /\ pruneResult = "none"
    /\ steps = <<>>
    /\ ctxDone = FALSE /\ runResult = "none"

\* The upstream's answer is parsed.
parseUpstreamCACSRResponse_call ==
    /\ signResult = NoSignResult
    /\ signCase.resp # SignError
    /\ signResult' = [op |-> "parseUpstreamCACSRResponse",
                      out |-> parseUpstreamCACSRResponse(signCase.resp)]
    /\ UNCHANGED <<now, cfg, km, bundle, journal, currentX509CA, nextX509CA,
                   currentJWTKey, nextJWTKey, pcRot, rotNow, x509CAErr, jwtKeyErr,
                   initialized, coldStart, ticked, x509Sets, jwtSets, pcPrune,
                   pruneNow, oldBundle, pruneResult, appended, restarts, failures,
                   passed, steps, ctxDone, runResult, signCase, reloaded, pruned>>
    /\ UNCHANGED <<slotCase, slotResult>>

\* The CA certificate is signed.
SignX509CA_call ==
    /\ signResult = NoSignResult
    /\ signResult' = [op |-> "SignX509CA",
                      out |-> SignX509CA(signCase.signer, cfg.upstreamCA,
                                         cfg.upstreamBundle, signCase.resp,
                                         signCase.notAfter)]
    /\ UNCHANGED <<now, cfg, km, bundle, journal, currentX509CA, nextX509CA,
                   currentJWTKey, nextJWTKey, pcRot, rotNow, x509CAErr, jwtKeyErr,
                   initialized, coldStart, ticked, x509Sets, jwtSets, pcPrune,
                   pruneNow, oldBundle, pruneResult, appended, restarts, failures,
                   passed, steps, ctxDone, runResult, signCase, reloaded, pruned>>
    /\ UNCHANGED <<slotCase, slotResult>>

NextSign ==
    \/ parseUpstreamCACSRResponse_call
    \/ SignX509CA_call

SpecSign == InitSign /\ [][NextSign]_vars

\* ------------------------------------------------------------ slot predicates
\* The slots ShouldPrepareNext and ShouldActivateNext are asked about: a new
\* slot, a slot that was Reset (it keeps its issuedAt), and slots holding
\* material of every issuedAt and NotAfter within the horizon, NotAfter before
\* issuedAt included.
X509CASlots ==
    {[newX509CASlot("A") EXCEPT !.issuedAt = i] : i \in 0..MaxTime} \cup
    {[id |-> "A", issuedAt |-> i,
      x509CA |-> [signer |-> 1, chain |-> <<Cert(1, n)>>, isIntermediate |-> FALSE]] :
         i \in 0..MaxTime, n \in 0..MaxTime}

JWTKeySlots ==
    {[newJWTKeySlot("A") EXCEPT !.issuedAt = i] : i \in 0..MaxTime} \cup
    {[id |-> "A", issuedAt |-> i,
      jwtKey |-> [signer |-> 1, kid |-> 1, notAfter |-> n]] :
         i \in 0..MaxTime, n \in 0..MaxTime}

SlotCases ==
    [kind : {"x509CASlot"}, slot : X509CASlots, now : 0..MaxTime] \cup
    [kind : {"jwtKeySlot"}, slot : JWTKeySlots, now : 0..MaxTime]

InitSlot ==
    /\ signCase = NoSignCase
    /\ signResult = NoSignResult
    /\ reloaded = NoReload
    /\ pruned = 0
    /\ slotCase \in SlotCases
    /\ slotResult = NoSlotResult
    /\ cfg = NoUpstream
    /\ now = 0
    /\ bundle = NoBundle
    /\ km = [id \in KmKeyIDs |-> 0]
    /\ journal = [x509CAs |-> <<>>, jwtKeys |-> <<>>]
    /\ appended = EmptyBundle
    /\ restarts = 0
    /\ failures = 0
    /\ passed = FALSE
    /\ currentX509CA = NoSlot /\ nextX509CA = NoSlot
    /\ currentJWTKey = NoSlot /\ nextJWTKey = NoSlot
    /\ pcRot = "init" /\ rotNow = 0
    /\ x509CAErr = FALSE /\ jwtKeyErr = FALSE
    /\ initialized = FALSE /\ coldStart = FALSE /\ ticked = FALSE
    /\ x509Sets = <<>> /\ jwtSets = <<>>
    /\ pcPrune = "idle" /\ pruneNow = 0 /\ oldBundle = NoBundle
    /\ pruneResult = "none"
    /\ steps = <<>>
    /\ ctxDone = FALSE /\ runResult = "none"

\* x509CASlot.ShouldPrepareNext and x509CASlot.ShouldActivateNext are called.
x509CASlot_Should_call ==
    /\ slotCase # NoSlotCase /\ slotResult = NoSlotResult
    /\ slotCase.kind = "x509CASlot"
    /\ slotResult' = [prepare |-> x509ShouldPrepareNext(slotCase.slot, slotCase.now),
                      activate |-> x509ShouldActivateNext(slotCase.slot, slotCase.now)]
    /\ UNCHANGED <<now, cfg, km, bundle, journal, currentX509CA, nextX509CA,
                   currentJWTKey, nextJWTKey, pcRot, rotNow, x509CAErr, jwtKeyErr,
                   initialized, coldStart, ticked, x509Sets, jwtSets, pcPrune,
                   pruneNow, oldBundle, pruneResult, appended, restarts, failures,
                   passed, steps, ctxDone, runResult, signCase, signResult, reloaded,
                   pruned, slotCase>>

\* jwtKeySlot.ShouldPrepareNext and jwtKeySlot.ShouldActivateNext are called.
jwtKeySlot_Should_call ==
    /\ slotCase # NoSlotCase /\ slotResult = NoSlotResult
    /\ slotCase.kind = "jwtKeySlot"
    /\ slotResult' = [prepare |-> jwtShouldPrepareNext(slotCase.slot, slotCase.now),
                      activate |-> jwtShouldActivateNext(slotCase.slot, slotCase.now)]
    /\ UNCHANGED <<now, cfg, km, bundle, journal, currentX509CA, nextX509CA,
                   currentJWTKey, nextJWTKey, pcRot, rotNow, x509CAErr, jwtKeyErr,
                   initialized, coldStart, ticked, x509Sets, jwtSets, pcPrune,
                   pruneNow, oldBundle, pruneResult, appended, restarts, failures,
                   passed, steps, ctxDone, runResult, signCase, signResult, reloaded,
                   pruned, slotCase>>

NextSlot ==
    \/ x509CASlot_Should_call
    \/ jwtKeySlot_Should_call

SpecSlot == InitSlot /\ [][NextSlot]_vars

\* ------------------------------------------------------------ types
TypeOK ==
    /\ now \in 0..MaxTime
    /\ pcRot \in {"init", "xBegin", "xCur", "xNext", "jBegin", "jCur", "jNext", "end",
                  "idle", "failed", "crashed", "done"}
    /\ pcPrune \in {"idle", "update", "returned", "done"}
    /\ restarts \in 0..MaxRestarts
    /\ failures \in 0..MaxFailures
    /\ \A id \in KmKeyIDs : km[id] \in Keys \cup {0}
    /\ Len(steps) <= 7
    /\ ctxDone \in BOOLEAN
    /\ runResult \in {"none", "nil", "context.Canceled"}
    /\ pruned \in Nat

\* ------------------------------------------------------------ claims
\* What one bundle holds of another.
HoldsAll(b, part) ==
    /\ b # NoBundle
    /\ part.rootCAs \subseteq b.rootCAs
    /\ part.jwtSigningKeys \subseteq b.jwtSigningKeys

\* The part of a bundle that has not expired beyond the safety threshold at
\* time t: the root entries and keys no prune pass up to t drops.
Unexpired(b, t) ==
    [rootCAs |-> {e \in b.rootCAs : \A i \in DOMAIN e : e[i].notAfter > t - safetyThreshold},
     jwtSigningKeys |-> {k \in b.jwtSigningKeys : k.notAfter > t - safetyThreshold}]

\* The trust roots prepareX509CA appends for an X509 CA: the upstream's root
\* for an intermediate, else the CA certificate itself.
TrustRootsOf(x509CA) ==
    IF x509CA.isIntermediate THEN {<<UpstreamRoot>>} ELSE {<<x509CA.chain[1]>>}

X509SlotRoots(s) == IF s = NoSlot \/ x509IsEmpty(s) THEN {} ELSE TrustRootsOf(s.x509CA)
JWTSlotPublicKeys(s) ==
    IF s = NoSlot \/ jwtIsEmpty(s) THEN {} ELSE {publicKeyFromJWTKey(s.jwtKey)}

\* C1: under every interleaving of the rotation loop and the prune loop, what
\* rotation has appended to the bundle is in the bundle unless it has itself
\* expired beyond the safety threshold; an AppendBundle that lands between a
\* prune pass's FetchBundle and its UpdateBundle is not lost.
C1_AppendedSurvivesPrune ==
    appended # EmptyBundle => HoldsAll(bundle, Unexpired(appended, now))

\* The race of C1: a prune pass has fetched, and rotation has appended since.
C1_AppendAfterFetch ==
    /\ pcPrune = "update"
    /\ ~HoldsAll(oldBundle, appended)

\* C2 (order): whatever sits in a slot, and whatever the sink has been handed,
\* has been appended to the trust bundle by a successful AppendBundle.
C2_AppendedBeforeSlotIsSet ==
    /\ \A s \in {currentX509CA, nextX509CA} : X509SlotRoots(s) \subseteq appended.rootCAs
    /\ \A s \in {currentJWTKey, nextJWTKey} :
           JWTSlotPublicKeys(s) \subseteq appended.jwtSigningKeys
    /\ \A i \in DOMAIN x509Sets : TrustRootsOf(x509Sets[i].x509CA) \subseteq appended.rootCAs
    /\ \A i \in DOMAIN jwtSets :
           publicKeyFromJWTKey(jwtSets[i].jwtKey) \in appended.jwtSigningKeys

\* C2 (state): the material of a next slot is in the stored bundle.
C2_NextSlotIsInBundle ==
    /\ X509SlotRoots(nextX509CA) # {} => HoldsAll(bundle, [rootCAs |-> X509SlotRoots(nextX509CA), jwtSigningKeys |-> {}])
    /\ JWTSlotPublicKeys(nextJWTKey) # {} => HoldsAll(bundle, [rootCAs |-> {}, jwtSigningKeys |-> JWTSlotPublicKeys(nextJWTKey)])

\* A bundle that can validate identities of both kinds.
HasBoth(b) == b # NoBundle /\ b.rootCAs # {} /\ b.jwtSigningKeys # {}

\* A prune pass has fetched a bundle (this step is its FetchBundle).
PruneFetched == pcPrune = "idle" /\ pcPrune' # "idle" /\ pruneResult' # "fetch failed"
\* A prune pass writes the bundle (this step is its successful UpdateBundle).
PruneWrote == pcPrune = "update" /\ pruneResult' = "updated"
PruneRefusals == {"would prune all certificates", "would prune all JWT signing keys"}
\* The bundle a prune pass that has fetched hands (or would hand) to UpdateBundle.
PruneRequest == pruneBundle_filter(oldBundle, pruneNow).newBundle

\* C3: when dropping the expired entries would leave the bundle without a root
\* or without a JWT key, pruneBundle returns an error without calling
\* UpdateBundle: the pass is over and the stored bundle is what it was.
C3_RefusedPruneLeavesBundle ==
    [][(/\ PruneFetched
        /\ bundle # NoBundle
        /\ ~HasBoth(Unexpired(bundle, now)))
       => (/\ pcPrune' = "returned"
           /\ pruneResult' \in PruneRefusals
           /\ bundle' = bundle)]_vars

\* C3's case: a prune pass has been refused because no root would be left.
C3_Refused ==
    /\ pcPrune = "returned"
    /\ pruneResult = "would prune all certificates"
    /\ bundle = oldBundle

\* C4: once the bundle holds a root and a JWT key, it holds one of each after
\* every step.
C4_BundleKeepsBoth == [][HasBoth(bundle) => HasBoth(bundle')]_vars

\* C4's case: a prune pass has written a bundle that held both and holds both.
C4_PrunedAndHasBoth ==
    /\ pcPrune = "returned"
    /\ pruneResult = "updated"
    /\ HasBoth(oldBundle) /\ HasBoth(bundle)
    /\ bundle.rootCAs # oldBundle.rootCAs
    /\ bundle.jwtSigningKeys # oldBundle.jwtSigningKeys

Expiries(b) ==
    UNION {{e[i].notAfter : i \in DOMAIN e} : e \in b.rootCAs}
    \cup {k.notAfter : k \in b.jwtSigningKeys}

\* What a prune pass writes is a proper part of what it fetched, with a root
\* and a JWT key in it.
ProperNonEmptyPart(new, old) ==
    /\ new.rootCAs \subseteq old.rootCAs
    /\ new.jwtSigningKeys \subseteq old.jwtSigningKeys
    /\ new # old
    /\ HasBoth(new)

\* C6 as stated: a prune pass writes only when a root or a JWT key of the
\* fetched bundle has NotAfter strictly before the cutoff, and what it writes
\* is a proper part of the fetched bundle with a root and a JWT key in it.
C6_WritesOnlyStrictlyOlder ==
    [][PruneWrote =>
        /\ \E n \in Expiries(oldBundle) : n < pruneNow
        /\ ProperNonEmptyPart(PruneRequest, oldBundle)]_vars

\* C6 amended: a prune pass writes only when a root or a JWT key of the
\* fetched bundle has NotAfter at or before the cutoff, and what it writes is
\* a proper part of the fetched bundle with a root and a JWT key in it.
C6_WritesOnlyNotNewer ==
    [][PruneWrote =>
        /\ \E n \in Expiries(oldBundle) : n <= pruneNow
        /\ ProperNonEmptyPart(PruneRequest, oldBundle)]_vars

\* C6's case: a prune pass has written although nothing in the fetched bundle
\* was strictly older than the cutoff.
C6_WroteAtCutoff ==
    /\ pcPrune = "returned"
    /\ pruneResult = "updated"
    /\ \A n \in Expiries(oldBundle) : n >= pruneNow

\* The times the thresholds are compared with.
Times == 0..MaxTime

\* C7: for a non-empty X509 slot, whatever its issuedAt and NotAfter, and for
\* every time, ShouldActivateNext implies ShouldPrepareNext.
C7_ActivateImpliesPrepare ==
    \A s \in {currentX509CA, nextX509CA} :
        (s # NoSlot /\ ~x509IsEmpty(s)) =>
            \A t \in Times : x509ShouldActivateNext(s, t) => x509ShouldPrepareNext(s, t)

\* Where C7 does hold: for a slot whose NotAfter does not precede its issuedAt.
C7_ActivateImpliesPrepareIfLifetimeNotNegative ==
    \A s \in {currentX509CA, nextX509CA} :
        (s # NoSlot /\ ~x509IsEmpty(s) /\ s.x509CA.chain[1].notAfter >= s.issuedAt) =>
            \A t \in Times : x509ShouldActivateNext(s, t) => x509ShouldPrepareNext(s, t)

\* The end of the one rotation pass of an Initialize that started cold, with
\* no error to return.
ColdPassDone == pcRot = "end" /\ coldStart /\ ~initialized /\ ~x509CAErr /\ ~jwtKeyErr

\* C8: from a cold start, after one rotation pass that returns no error, both
\* current slots hold material, the sink has been handed exactly that material
\* and nothing else, both next slots are empty, and the bundle holds that root
\* and that JWT key.
C8_ColdStartPublishesOnce ==
    ColdPassDone =>
        /\ ~x509IsEmpty(currentX509CA) /\ ~jwtIsEmpty(currentJWTKey)
        /\ x509Sets = <<activateX509CA(currentX509CA)>>
        /\ jwtSets = <<activateJWTKey(currentJWTKey)>>
        /\ x509IsEmpty(nextX509CA) /\ jwtIsEmpty(nextJWTKey)
        /\ HoldsAll(bundle, [rootCAs |-> X509SlotRoots(currentX509CA),
                             jwtSigningKeys |-> JWTSlotPublicKeys(currentJWTKey)])

\* Where C8 does hold: when the CA certificate prepared at the cold start is
\* not already past its activation threshold.
C8_ColdStartPublishesOnceIfNotExpired ==
    (ColdPassDone /\ cfg.upstreamTTL > 0) =>
        /\ ~x509IsEmpty(currentX509CA) /\ ~jwtIsEmpty(currentJWTKey)
        /\ x509Sets = <<activateX509CA(currentX509CA)>>
        /\ jwtSets = <<activateJWTKey(currentJWTKey)>>
        /\ x509IsEmpty(nextX509CA) /\ jwtIsEmpty(nextJWTKey)
        /\ HoldsAll(bundle, [rootCAs |-> X509SlotRoots(currentX509CA),
                             jwtSigningKeys |-> JWTSlotPublicKeys(currentJWTKey)])

\* C9: within one lifetime of the manager, what the sink is handed never
\* carries the same slot id twice in a row, for X509 CAs and for JWT keys.
C9_SlotIdsAlternate ==
    /\ \A i \in 1..(Len(x509Sets) - 1) : x509Sets[i].slot # x509Sets[i + 1].slot
    /\ \A i \in 1..(Len(jwtSets) - 1) : jwtSets[i].slot # jwtSets[i + 1].slot

\* C9's case: three publications of each kind in one lifetime.
C9_ThreePublications == Len(x509Sets) >= 3 /\ Len(jwtSets) >= 3

\* C10: once Initialize has returned nil, at the end of every rotation pass,
\* failed or not, what the sink was handed last is what the current slot
\* holds, for X509 CAs and for JWT keys.
C10_SinkHoldsCurrent ==
    (initialized /\ pcRot \in {"end", "idle"}) =>
        /\ x509Sets # <<>>
        /\ x509Sets[Len(x509Sets)] = activateX509CA(currentX509CA)
        /\ jwtSets # <<>>
        /\ jwtSets[Len(jwtSets)] = activateJWTKey(currentJWTKey)

\* C10's case: the end of a failed pass of the rotation loop, after rotations.
C10_FailedPassAfterRotation ==
    /\ initialized /\ pcRot = "end"
    /\ x509CAErr \/ jwtKeyErr
    /\ Len(x509Sets) >= 2 /\ Len(jwtSets) >= 2

\* ------------------------------------------------------------ recovery
\* A journal entry is usable when the key manager holds, under the entry's
\* slot's key id, the key the entry was made with.
X509EntryUsable(e) ==
    /\ e.slotId # "" /\ e.chain # <<>>
    /\ \A i \in DOMAIN e.chain : e.chain[i] # CorruptDER
    /\ km[x509CAKmKeyId(e.slotId)] # 0
    /\ km[x509CAKmKeyId(e.slotId)] = e.chain[1].key
JWTEntryUsable(e) ==
    /\ e.slotId # ""
    /\ km[jwtKeyKmKeyId(e.slotId)] # 0
    /\ km[jwtKeyKmKeyId(e.slotId)] = e.publicKey

\* The slot an entry stands for.
X509SlotOfEntry(e) ==
    [id |-> e.slotId, issuedAt |-> timeUnix(e.issuedAt),
     x509CA |-> [signer |-> e.chain[1].key, chain |-> e.chain,
                 isIntermediate |-> e.isIntermediate]]
JWTSlotOfEntry(e) ==
    [id |-> e.slotId, issuedAt |-> timeUnix(e.issuedAt),
     jwtKey |-> [signer |-> e.publicKey, kid |-> e.kid,
                 notAfter |-> timeUnix(e.notAfter)]]

LastUsable(entries, Usable(_)) ==
    Len(entries) > 0 /\ Usable(entries[Len(entries)])
PrevUsable(entries, Usable(_)) ==
    Len(entries) > 1 /\ Usable(entries[Len(entries) - 1])

\* A loadJournal that returned no error has just run.
Recovered == pcRot = "init" /\ pcRot' = "xBegin"

\* C11: recovery of each kind goes by the usability of the last two journal
\* entries: neither usable, current is an empty slot A and next an empty slot
\* B; only the last usable, it is current and next is an empty slot of the
\* other id; both usable, the second-to-last is current and the last is next.
C11_RecoveryByLastTwo ==
    [][Recovered =>
        LET xs == journal.x509CAs
            js == journal.jwtKeys
            xLast == LastUsable(xs, X509EntryUsable)
            xPrev == PrevUsable(xs, X509EntryUsable)
            jLast == LastUsable(js, JWTEntryUsable)
            jPrev == PrevUsable(js, JWTEntryUsable)
        IN  /\ (~xLast /\ ~xPrev) =>
                  /\ currentX509CA' = newX509CASlot("A")
                  /\ nextX509CA' = newX509CASlot("B")
            /\ (xLast /\ ~xPrev) =>
                  /\ currentX509CA' = X509SlotOfEntry(xs[Len(xs)])
                  /\ nextX509CA' = newX509CASlot(otherSlotID(xs[Len(xs)].slotId))
            /\ (xLast /\ xPrev) =>
                  /\ currentX509CA' = X509SlotOfEntry(xs[Len(xs) - 1])
                  /\ nextX509CA' = X509SlotOfEntry(xs[Len(xs)])
            /\ (~jLast /\ ~jPrev) =>
                  /\ currentJWTKey' = newJWTKeySlot("A")
                  /\ nextJWTKey' = newJWTKeySlot("B")
            /\ (jLast /\ ~jPrev) =>
                  /\ currentJWTKey' = JWTSlotOfEntry(js[Len(js)])
                  /\ nextJWTKey' = newJWTKeySlot(otherSlotID(js[Len(js)].slotId))
            /\ (jLast /\ jPrev) =>
                  /\ currentJWTKey' = JWTSlotOfEntry(js[Len(js) - 1])
                  /\ nextJWTKey' = JWTSlotOfEntry(js[Len(js)])]_vars

\* C11's case: a recovery from a journal of two entries of each kind, of
\* which only the last X509 CA entry was usable and both JWT key entries were.
C11_RecoveredLastOnly ==
    /\ pcRot = "xBegin" /\ ~initialized /\ ~ticked
    /\ Len(journal.x509CAs) > 1 /\ Len(journal.jwtKeys) > 1
    /\ LastUsable(journal.x509CAs, X509EntryUsable)
    /\ ~PrevUsable(journal.x509CAs, X509EntryUsable)
    /\ currentX509CA = X509SlotOfEntry(journal.x509CAs[Len(journal.x509CAs)])
    /\ x509IsEmpty(nextX509CA)
    /\ PrevUsable(journal.jwtKeys, JWTEntryUsable)
    /\ currentJWTKey = JWTSlotOfEntry(journal.jwtKeys[Len(journal.jwtKeys) - 1])

\* now has crossed the activation threshold of a non-empty slot.
X509Crossed(s, t) == t > activationThreshold(s.issuedAt, s.x509CA.chain[1].notAfter)
JWTCrossed(s, t) == t > activationThreshold(s.issuedAt, s.jwtKey.notAfter)

\* The first rotation pass, the one of Initialize, is at its end with no error.
FirstPassDone == pcRot = "end" /\ ~initialized /\ ~x509CAErr /\ ~jwtKeyErr

\* C12: loadJournal publishes a recovered non-empty current slot exactly when
\* now has not crossed the slot's activation threshold, and publishes nothing
\* else; and at the end of the first rotation pass that returns no error the
\* sink has been handed the current CA and the current key.
C12_RecoveryPublishesUncrossed ==
    [][/\ Recovered =>
             /\ x509Sets' = IF ~x509IsEmpty(currentX509CA')
                               /\ ~X509Crossed(currentX509CA', now)
                            THEN <<activateX509CA(currentX509CA')>> ELSE <<>>
             /\ jwtSets' = IF ~jwtIsEmpty(currentJWTKey')
                              /\ ~JWTCrossed(currentJWTKey', now)
                           THEN <<activateJWTKey(currentJWTKey')>> ELSE <<>>
       /\ FirstPassDone' =>
             /\ x509Sets' # <<>>
             /\ x509Sets'[Len(x509Sets')] = activateX509CA(currentX509CA')
             /\ jwtSets' # <<>>
             /\ jwtSets'[Len(jwtSets')] = activateJWTKey(currentJWTKey')]_vars

\* C12's case: the first pass after a recovery is at its end with no error;
\* the recovered current X509 CA, the journal's first entry, had crossed its
\* activation threshold, and what the sink was handed, once, is the other slot.
C12_CrossedThenPublished ==
    /\ FirstPassDone
    /\ Len(journal.x509CAs) = 2
    /\ X509EntryUsable(journal.x509CAs[1]) /\ X509EntryUsable(journal.x509CAs[2])
    /\ X509Crossed(X509SlotOfEntry(journal.x509CAs[1]), now)
    /\ currentX509CA = X509SlotOfEntry(journal.x509CAs[2])
    /\ x509Sets = <<activateX509CA(currentX509CA)>>

\* ------------------------------------------------------------ errors
\* A preparation is due at time t: current is empty, or next is empty and
\* current is past its preparation threshold.
X509PreparationDue(t) ==
    \/ x509IsEmpty(currentX509CA)
    \/ x509IsEmpty(nextX509CA)
       /\ t > preparationThreshold(currentX509CA.issuedAt,
                                   currentX509CA.x509CA.chain[1].notAfter)
JWTPreparationDue(t) ==
    \/ jwtIsEmpty(currentJWTKey)
    \/ jwtIsEmpty(nextJWTKey)
       /\ t > preparationThreshold(currentJWTKey.issuedAt, currentJWTKey.jwtKey.notAfter)

\* For the passes in scope, while the process lives: a pass that ends with an
\* error is followed by the wait for the next tick; a preparation that failed
\* is still due, stays due until the next pass comes to its kind, and is then
\* attempted.
ErrorNotFatal(scope) ==
    (scope /\ restarts' = restarts) =>
        /\ (pcRot = "end" /\ pcRot' # "end" /\ (x509CAErr \/ jwtKeyErr)) =>
               pcRot' = "idle" /\ ~x509CAErr' /\ ~jwtKeyErr'
        /\ (~x509CAErr /\ x509CAErr') => X509PreparationDue(now)'
        /\ (~jwtKeyErr /\ jwtKeyErr') => JWTPreparationDue(now)'
        /\ (pcRot \in {"jBegin", "jCur", "jNext", "end", "idle"} /\ X509PreparationDue(now))
               => X509PreparationDue(now)'
        /\ (pcRot \in {"end", "idle", "xBegin", "xCur", "xNext"} /\ JWTPreparationDue(now))
               => JWTPreparationDue(now)'
        /\ (pcRot = "xBegin" /\ pcRot' # "xBegin" /\ X509PreparationDue(now))
               => pcRot' \in {"xCur", "xNext"}
        /\ (pcRot = "jBegin" /\ pcRot' # "jBegin" /\ JWTPreparationDue(now))
               => pcRot' \in {"jCur", "jNext"}

\* C13 as stated: a backend error during any rotation pass, that of Initialize
\* included, is not fatal: the loop goes on and the preparation is attempted
\* again at the next tick.
C13_ErrorNotFatalInAnyPass == [][ErrorNotFatal(TRUE)]_vars

\* C13 amended: a backend error during a pass of the rotation loop is not
\* fatal: the loop goes on and the preparation is attempted again at the next
\* tick.
C13_ErrorNotFatalInLoop == [][ErrorNotFatal(initialized)]_vars

\* C13's case: before any swap, a pass of the rotation loop attempts to
\* prepare slot B again after an attempt that got its key generated and failed.
C13_RetryAfterFailure ==
    /\ pcRot = "xNext" /\ initialized /\ restarts = 0
    /\ now < DefaultCATTL
    /\ nextX509CA.id = "B"
    /\ km[x509CAKmKeyId("B")] # 0
    /\ \A i \in DOMAIN journal.x509CAs : journal.x509CAs[i].slotId # "B"

\* The positions of a pass inside rotateX509CA and inside rotateJWTKey.
InRotateX509CA == {"xBegin", "xCur", "xNext"}
InRotateJWTKey == {"jBegin", "jCur", "jNext"}

\* C14: in every rotation pass rotateJWTKey is run after rotateX509CA whether
\* or not that failed, and prepares, swaps and activates as is due; nothing in
\* rotateJWTKey touches the X509 outcome; and the pass returns an error, which
\* carries both kinds' errors, exactly when one of the kinds failed.
C14_BothKindsAttempted ==
    [][restarts' = restarts =>
        /\ (pcRot \in InRotateX509CA /\ pcRot' \notin InRotateX509CA) => pcRot' = "jBegin"
        /\ (pcRot = "jBegin" /\ pcRot' # "jBegin") =>
              /\ JWTPreparationDue(now) => pcRot' \in {"jCur", "jNext"}
              /\ (~JWTPreparationDue(now) /\ JWTCrossed(currentJWTKey, now)) =>
                    /\ currentJWTKey' = nextJWTKey
                    /\ jwtSets' = Append(jwtSets, activateJWTKey(nextJWTKey))
        /\ pcRot \in InRotateJWTKey =>
              UNCHANGED <<currentX509CA, nextX509CA, x509Sets, x509CAErr>>
        /\ (pcRot = "end" /\ pcRot' # "end") =>
              /\ (errsCombine(x509CAErr, jwtKeyErr) = NoError) <=> (~x509CAErr /\ ~jwtKeyErr)
              /\ errsCombine(x509CAErr, jwtKeyErr) # NoError =>
                    /\ errsCombine(x509CAErr, jwtKeyErr).x509CAErr = x509CAErr
                    /\ errsCombine(x509CAErr, jwtKeyErr).jwtKeyErr = jwtKeyErr
              /\ ~initialized => ((pcRot' = "failed") <=> (x509CAErr \/ jwtKeyErr))]_vars

\* C14's case: the end of the pass of a cold start in which the preparation
\* of the X509 CA failed and the JWT key was prepared and published.
C14_X509FailedJWTPublished ==
    /\ pcRot = "end" /\ coldStart /\ ~initialized
    /\ x509CAErr /\ ~jwtKeyErr
    /\ x509IsEmpty(currentX509CA)
    /\ jwtSets = <<activateJWTKey(currentJWTKey)>>

\* ------------------------------------------------------------ journal
\* The X509 CA of slot s has no journal entry.
X509Unjournaled(s) ==
    \A i \in DOMAIN journal.x509CAs : journal.x509CAs[i].chain # s.x509CA.chain
JWTUnjournaled(s) ==
    \A i \in DOMAIN journal.jwtKeys : journal.jwtKeys[i].publicKey # s.jwtKey.signer

\* A preparation of this step returned no error although its journal append
\* failed.
X509PreparedUnjournaled ==
    pcRot \in {"xCur", "xNext"} /\ pcRot' \notin {"xCur", "xNext"}
    /\ ~x509CAErr' /\ journal' = journal
JWTPreparedUnjournaled ==
    pcRot \in {"jCur", "jNext"} /\ pcRot' \notin {"jCur", "jNext"}
    /\ ~jwtKeyErr' /\ journal' = journal

\* C15: when the journal append of a prepare fails, the prepare returns no
\* error and leaves what it leaves when the append succeeds, but for the
\* journal: the slot holds the material, issued now; the bundle holds the
\* appended roots or key; a prepared current slot is published at once, and
\* a prepared next slot is swapped in and published if the swap is due.
C15_JournalFailureNotFatal ==
    [][restarts' = restarts =>
        /\ (pcRot \in {"xCur", "xNext"} /\ FreshKeys # {}) =>
              \A kmOK, dsOK \in BOOLEAN, resp \in SubmitCSRAnswers :
                  LET slot == IF pcRot = "xCur" THEN currentX509CA ELSE nextX509CA
                      lost == prepareX509CA(slot, kmOK, resp, dsOK, FALSE)
                      kept == prepareX509CA(slot, kmOK, resp, dsOK, TRUE)
                  IN  [lost EXCEPT !.journal = kept.journal] = kept
        /\ (pcRot \in {"jCur", "jNext"} /\ FreshKeys # {}) =>
              \A kmOK, dsOK \in BOOLEAN :
                  LET slot == IF pcRot = "jCur" THEN currentJWTKey ELSE nextJWTKey
                      lost == prepareJWTKey(slot, kmOK, dsOK, FALSE)
                      kept == prepareJWTKey(slot, kmOK, dsOK, TRUE)
                  IN  [lost EXCEPT !.journal = kept.journal] = kept
        /\ X509PreparedUnjournaled =>
              LET swap == pcRot = "xNext" /\ X509Crossed(currentX509CA, rotNow)
                  slot == IF pcRot = "xCur" \/ swap THEN currentX509CA' ELSE nextX509CA'
              IN  /\ ~x509IsEmpty(slot) /\ slot.issuedAt = now
                  /\ HoldsAll(bundle', [rootCAs |-> X509SlotRoots(slot),
                                        jwtSigningKeys |-> {}])
                  /\ (pcRot = "xCur" \/ swap) =>
                        x509Sets'[Len(x509Sets) + 1] = activateX509CA(slot)
        /\ JWTPreparedUnjournaled =>
              LET swap == pcRot = "jNext" /\ JWTCrossed(currentJWTKey, rotNow)
                  slot == IF pcRot = "jCur" \/ swap THEN currentJWTKey' ELSE nextJWTKey'
              IN  /\ ~jwtIsEmpty(slot) /\ slot.issuedAt = now
                  /\ HoldsAll(bundle', [rootCAs |-> {},
                                        jwtSigningKeys |-> JWTSlotPublicKeys(slot)])
                  /\ (pcRot = "jCur" \/ swap) =>
                        jwtSets'[Len(jwtSets) + 1] = activateJWTKey(slot)]_vars

\* C15's case: a next X509 CA whose journal append failed has been swapped in
\* and published.
C15_UnjournaledSwappedIn ==
    /\ pcRot \in {"jBegin", "end", "idle"}
    /\ restarts = 0
    /\ Len(x509Sets) = 2
    /\ x509Sets[2] = activateX509CA(currentX509CA)
    /\ X509Unjournaled(currentX509CA)

\* ------------------------------------------------------------ shutdown
\* C16: once the context is cancelled while both loops wait for their
\* tickers, both loops return and Run returns nil; and Run never returns
\* anything but nil, the loops returning no error.
C16_CancelledRunReturnsNil ==
    /\ (ctxDone /\ pcRot = "idle" /\ pcPrune = "idle")
           ~> (pcRot = "done" /\ pcPrune = "done" /\ runResult = "nil")
    /\ [](runResult \in {"none", "nil"})
    /\ [](runResult = "nil" => ctxDone)

\* C16's case: Run has returned after a cancellation that came after
\* rotations.
C16_RunReturned ==
    /\ runResult = "nil" /\ ctxDone
    /\ pcRot = "done" /\ pcPrune = "done"
    /\ Len(x509Sets) >= 2

\* ------------------------------------------------------------ signing
\* A deprecated-shape response has been parsed.
ParsedLegacy ==
    /\ signResult # NoSignResult
    /\ signResult.op = "parseUpstreamCACSRResponse"
    /\ ~signCase.resp.signed

\* C17: for a deprecated-shape response with certificate C and upstream trust
\* bundle B, parsing fails when B is empty; else the chain is C followed by
\* all of B but its last element, and the trust bundle is B's last element.
C17_LegacyResponseSplit ==
    ParsedLegacy =>
        LET C == signCase.resp.cert
            B == signCase.resp.upstreamTrustBundle
            out == signResult.out
        IN  IF B = <<>> THEN out.err
            ELSE /\ ~out.err
                 /\ out.chain = <<C>> \o [i \in 1..(Len(B) - 1) |-> B[i]]
                 /\ out.trustBundle = <<B[Len(B)]>>

\* C17's case: a deprecated-shape response with an upstream trust bundle of
\* three certificates has been parsed.
C17_ParsedLongBundle ==
    /\ ParsedLegacy
    /\ Len(signCase.resp.upstreamTrustBundle) = MaxBundleLen
    /\ Len(signResult.out.chain) = MaxBundleLen

\* What the upstream's answer gives: the chain, the roots and the leaf.
UpstreamChain(resp) ==
    IF resp.signed THEN resp.certChain
    ELSE <<resp.cert>> \o [i \in 1..(Len(resp.upstreamTrustBundle) - 1) |->
                              resp.upstreamTrustBundle[i]]
UpstreamRoots(resp) ==
    IF resp.signed THEN resp.bundle
    ELSE <<resp.upstreamTrustBundle[Len(resp.upstreamTrustBundle)]>>
UpstreamLeaf(resp) == IF resp.signed THEN resp.certChain[1] ELSE resp.cert
UpstreamFails(resp) ==
    resp = SignError \/ (~resp.signed /\ resp.upstreamTrustBundle = <<>>)

Signed == signResult # NoSignResult /\ signResult.op = "SignX509CA"

\* C18: SignX509CA yields IsIntermediate exactly when an upstream CA is
\* configured and UpstreamBundle is set, and then the chain is the upstream's
\* chain and the trust bundle the upstream's roots; with an upstream CA and
\* without UpstreamBundle the chain is the leaf alone, which is the trust
\* bundle; without an upstream CA the chain is the self-signed certificate
\* alone, which is the trust bundle.
C18_SignX509CAModes ==
    Signed =>
        LET c == signCase
            out == signResult.out
        IN  IF c.upstreamCA /\ UpstreamFails(c.resp) THEN out.err
            ELSE /\ ~out.err
                 /\ out.x509CA.signer = c.signer
                 /\ out.x509CA.isIntermediate <=> (c.upstreamCA /\ c.upstreamBundle)
                 /\ (c.upstreamCA /\ c.upstreamBundle) =>
                       /\ out.x509CA.chain = UpstreamChain(c.resp)
                       /\ out.trustBundle = UpstreamRoots(c.resp)
                 /\ (c.upstreamCA /\ ~c.upstreamBundle) =>
                       /\ out.x509CA.chain = <<UpstreamLeaf(c.resp)>>
                       /\ out.trustBundle = <<UpstreamLeaf(c.resp)>>
                 /\ ~c.upstreamCA =>
                       /\ out.x509CA.chain = <<Cert(c.signer, c.notAfter)>>
                       /\ out.trustBundle = <<Cert(c.signer, c.notAfter)>>

\* C18's case: an upstream CA without UpstreamBundle has answered with a chain
\* of two certificates, and SignX509CA has returned.
C18_SignedTruncated ==
    /\ Signed
    /\ signCase.upstreamCA /\ ~signCase.upstreamBundle
    /\ signCase.resp # SignError /\ signCase.resp.signed
    /\ Len(signCase.resp.certChain) = 2
    /\ ~signResult.out.err

\* ------------------------------------------------------------ activation
\* C19: activation never runs on an empty slot: the swap never makes an empty
\* next slot the current slot, where activateX509CA or activateJWTKey would
\* dereference what the slot does not hold.
C19_ActivationNeverOnEmptySlot ==
    /\ pcRot # "crashed"
    /\ (pcRot \in {"jBegin", "jCur", "jNext", "end"} /\ x509Sets # <<>>) =>
           ~x509IsEmpty(currentX509CA)
    /\ (pcRot = "end" /\ jwtSets # <<>>) => ~jwtIsEmpty(currentJWTKey)

\* ------------------------------------------------------------ ordering
\* Where a call stands among the calls of the pass's last prepare and
\* activate (0 when it was not made), and whether one call was made before
\* another when both were made.
StepIndex(call) ==
    IF \E i \in 1..Len(steps) : steps[i] = call
    THEN CHOOSE i \in 1..Len(steps) :
             steps[i] = call /\ \A j \in 1..(i - 1) : steps[j] # call
    ELSE 0
StepBefore(a, b) ==
    (StepIndex(a) # 0 /\ StepIndex(b) # 0) => StepIndex(a) < StepIndex(b)
InOrder(calls) ==
    \A i \in 1..(Len(calls) - 1) : StepBefore(calls[i], calls[i + 1])

\* C20 as stated: prepare (key generation, signing, bundle append, slot
\* recorded), then activate, then the journal append, then the log.
C20_ActivateBeforeJournal ==
    /\ InOrder(<<"GenerateKey", "SignX509CA", "AppendBundle", "slot.x509CA",
                 "SetX509CA", "AppendX509CA", "X509 CA prepared">>)
    /\ InOrder(<<"GenerateKey", "newJWTKey", "AppendBundle", "slot.jwtKey",
                 "SetJWTKey", "AppendJWTKey", "JWT key prepared">>)

\* C20, amended: key generation, signing, bundle append, slot recorded, then
\* the journal append, then the log, and only then activate; no call is made
\* twice, and a call is made only after all the calls before it.
C20_JournalBeforeActivate ==
    /\ InOrder(<<"GenerateKey", "SignX509CA", "AppendBundle", "slot.x509CA",
                 "AppendX509CA", "X509 CA prepared", "SetX509CA">>)
    /\ InOrder(<<"GenerateKey", "newJWTKey", "AppendBundle", "slot.jwtKey",
                 "AppendJWTKey", "JWT key prepared", "SetJWTKey">>)
    /\ \A i, j \in 1..Len(steps) : steps[i] = steps[j] => i = j
    /\ (Len(steps) > 0 /\ steps[1] = "GenerateKey") =>
           \/ \E n \in 1..7 :
                 steps = SubSeq(<<"GenerateKey", "SignX509CA", "AppendBundle", "slot.x509CA",
                                  "AppendX509CA", "X509 CA prepared", "SetX509CA">>, 1, n)
           \/ \E n \in 1..7 :
                 steps = SubSeq(<<"GenerateKey", "newJWTKey", "AppendBundle", "slot.jwtKey",
                                  "AppendJWTKey", "JWT key prepared", "SetJWTKey">>, 1, n)

\* C20's case: a rotation pass has prepared an X509 CA whose journal append
\* failed, and has activated it.
C20_PreparedThenActivated ==
    /\ Len(steps) = 7
    /\ steps[5] = "AppendX509CA"
    /\ steps[7] = "SetX509CA"
    /\ pcRot \in {"jBegin", "jCur", "jNext"}
    /\ X509Unjournaled(currentX509CA)

\* ------------------------------------------------------------ one tick
X509Lifetime(s) == s.x509CA.chain[1].notAfter - s.issuedAt
\* now > T0 + L/2, and now > T0 + L - L/6, for the slot's T0 and L.
PrepareDueAt(s, t) == t > s.issuedAt + GoDiv(X509Lifetime(s), 2)
SwapDueAt(s, t) == t > s.issuedAt + X509Lifetime(s) - GoDiv(X509Lifetime(s), 6)
Roots(b) == IF b = NoBundle THEN {} ELSE b.rootCAs
Joined == cfg.upstreamCA /\ cfg.upstreamBundle

\* A rotation tick's X509 part, for a current X509 CA of positive lifetime and
\* an empty next slot: next is prepared iff now > T0 + L/2; with working
\* backends the slots are swapped iff now > T0 + L - L/6.  A tick that only
\* prepares leaves current and the sink as they are and adds to the bundle
\* what addedRoots allows; a tick that swaps makes the prepared material
\* current, publishes it, and leaves the displaced slot empty as next.
TickOfX509(addedRoots(_, _)) ==
    /\ ( /\ pcRot = "xBegin" /\ pcRot' \in {"xNext", "jBegin", "crashed"}
         /\ ~x509IsEmpty(currentX509CA) /\ x509IsEmpty(nextX509CA)
         /\ X509Lifetime(currentX509CA) > 0 ) =>
           /\ (pcRot' = "xNext") <=> PrepareDueAt(currentX509CA, now)
           /\ pcRot' # "xNext" =>
                 /\ ~SwapDueAt(currentX509CA, now)
                 /\ pcRot' = "jBegin"
                 /\ currentX509CA' = currentX509CA /\ nextX509CA' = nextX509CA
                 /\ x509Sets' = x509Sets /\ bundle' = bundle
    /\ ( /\ pcRot = "xNext" /\ pcRot' \in {"jBegin", "crashed"} /\ ~x509CAErr'
         /\ X509Lifetime(currentX509CA) > 0 ) =>
           /\ pcRot' = "jBegin"
           /\ IF SwapDueAt(currentX509CA, now)
              THEN /\ ~x509IsEmpty(currentX509CA')
                   /\ currentX509CA'.id = nextX509CA.id
                   /\ currentX509CA'.issuedAt = now
                   /\ currentX509CA'.x509CA.signer = NewKey
                   /\ x509Sets' = Append(x509Sets, activateX509CA(currentX509CA'))
                   /\ x509IsEmpty(nextX509CA')
                   /\ nextX509CA'.id = currentX509CA.id
              ELSE /\ currentX509CA' = currentX509CA
                   /\ x509Sets' = x509Sets
                   /\ ~x509IsEmpty(nextX509CA')
                   /\ nextX509CA'.id = nextX509CA.id
                   /\ nextX509CA'.x509CA.signer = NewKey
                   /\ addedRoots(Roots(bundle') \ Roots(bundle),
                                 nextX509CA'.x509CA.chain[1])

ExactlyOneRoot(added, leaf) == Cardinality(added) = 1
\* The new CA's own certificate is the one root added, unless the server has
\* joined an upstream PKI: then the upstream's roots are what is appended,
\* and the new CA's certificate is no root.
OneRootUnlessJoined(added, leaf) ==
    IF Joined
    THEN <<leaf>> \notin added /\ <<leaf>> \notin Roots(bundle')
    ELSE added = {<<leaf>>}

\* C21 as stated: ... a tick that only prepares adds exactly one root to the
\* bundle, whatever the configuration.
C21_TickAddsOneRoot == [][TickOfX509(ExactlyOneRoot)]_vars

\* C21, amended: a rotation tick prepares next iff now > T0 + L/2 and swaps
\* iff now > T0 + L - L/6; a tick that only prepares leaves current and the
\* sink unchanged and adds exactly one root, the new CA's certificate, unless
\* an upstream CA is configured with UpstreamBundle, where it adds none of
\* its own; a tick that swaps makes the prepared material current, publishes
\* it, and leaves the displaced slot empty as the new next.
C21_TickAddsOneRootUnlessJoined == [][TickOfX509(OneRootUnlessJoined)]_vars

\* C21's case: a tick of the rotation loop has prepared next and has not
\* swapped; the server has joined no upstream PKI.
C21_TickOnlyPrepared ==
    /\ initialized /\ ticked /\ pcRot = "jBegin"
    /\ ~Joined
    /\ Len(steps) = 6 /\ steps[6] = "X509 CA prepared"
    /\ ~x509IsEmpty(currentX509CA) /\ ~x509IsEmpty(nextX509CA)
    /\ PrepareDueAt(currentX509CA, now) /\ ~SwapDueAt(currentX509CA, now)

\* ------------------------------------------------------------ slot ids
\* C22: once loadJournal has returned without an error, and from then on
\* through every rotation pass, the current and the next slot of each kind
\* are there and carry distinct ids, one "A" and one "B".
C22_SlotIdsDistinct ==
    /\ pcRot \notin {"init", "failed"} =>
          /\ currentX509CA # NoSlot /\ nextX509CA # NoSlot
          /\ currentJWTKey # NoSlot /\ nextJWTKey # NoSlot
    /\ (currentX509CA # NoSlot /\ nextX509CA # NoSlot) =>
          {currentX509CA.id, nextX509CA.id} = SlotIDs
    /\ (currentJWTKey # NoSlot /\ nextJWTKey # NoSlot) =>
          {currentJWTKey.id, nextJWTKey.id} = SlotIDs

\* C22's case: after a restart, loadJournal has recovered the slots from a
\* journal of several entries, and passes of the rotation loop have swapped
\* the slots of both kinds since.
C22_RecoveredThenRotated ==
    /\ restarts > 0 /\ initialized /\ ticked /\ pcRot = "idle"
    /\ Len(journal.x509CAs) >= 2 /\ Len(journal.jwtKeys) >= 2
    /\ Len(x509Sets) >= 2 /\ Len(jwtSets) >= 2

\* ------------------------------------------------------------ unusable entries
\* All but the last.
Front(entries) == SubSeq(entries, 1, Len(entries) - 1)

\* C23: an unusable last journal entry is discarded and recovery proceeds as
\* if it did not exist: the slots recovered are those recovered from the same
\* journal without that entry, so that a usable second-to-last entry is
\* recovered.
C23_UnusableLastAsIfAbsent ==
    [][Recovered =>
        LET xs == journal.x509CAs
            js == journal.jwtKeys
        IN  /\ (xs # <<>> /\ ~X509EntryUsable(xs[Len(xs)])) =>
                  LET r == loadJournal_x509(Front(xs), TRUE, TRUE)
                  IN  currentX509CA' = r.cur /\ nextX509CA' = r.nxt
            /\ (js # <<>> /\ ~JWTEntryUsable(js[Len(js)])) =>
                  LET r == loadJournal_jwt(Front(js), TRUE, TRUE)
                  IN  currentJWTKey' = r.cur /\ nextJWTKey' = r.nxt]_vars

\* ------------------------------------------------------------ load-time errors
\* An entry's chain, or public key, does not parse.
X509EntryCorrupt(e) == e.slotId # "" /\ \E i \in DOMAIN e.chain : e.chain[i] = CorruptDER
JWTEntryCorrupt(e) == e.slotId # "" /\ e.publicKey = CorruptPKIX

\* Recovery considers the last entry, and the second-to-last when the last
\* is usable.
ConsidersCorrupt(entries, Corrupt(_), Usable(_)) ==
    /\ entries # <<>>
    /\ \/ Corrupt(entries[Len(entries)])
       \/ /\ Usable(entries[Len(entries)])
          /\ Len(entries) > 1
          /\ Corrupt(entries[Len(entries) - 1])

LoadsCorrupt ==
    \/ ConsidersCorrupt(journal.x509CAs, X509EntryCorrupt, X509EntryUsable)
    \/ ConsidersCorrupt(journal.jwtKeys, JWTEntryCorrupt, JWTEntryUsable)

\* C24: when the chain or the public key of a journal entry that recovery
\* considers does not parse, or the key manager's lookup for it fails,
\* Initialize returns an error, runs no rotation pass and the server does not
\* start; entries that are merely unusable are skipped without an error.
C24_LoadErrorsAreFatal ==
    [][(pcRot = "init" /\ pcRot' # "init") =>
        /\ pcRot' \in {"failed", "xBegin"}
        /\ LoadsCorrupt => pcRot' = "failed"
        /\ failures' # failures => pcRot' = "failed"
        /\ (~LoadsCorrupt /\ failures' = failures) => pcRot' = "xBegin"
        /\ \A e \in Range(journal.x509CAs) :
              (e.slotId # "" /\ e.chain # <<>>) => loadX509CASlotFromEntry(e, FALSE).err
        /\ \A e \in Range(journal.jwtKeys) :
              e.slotId # "" => loadJWTKeySlotFromEntry(e, FALSE).err
        /\ journal.x509CAs # <<>> =>
              loadJournal_x509(journal.x509CAs, FALSE, TRUE).err
        /\ journal.jwtKeys # <<>> =>
              loadJournal_jwt(journal.jwtKeys, FALSE, TRUE).err
        /\ pcRot' = "failed" =>
              /\ ~initialized' /\ steps' \in {<<>>, <<"SetX509CA">>}
              /\ km' = km /\ bundle' = bundle /\ journal' = journal]_vars
    /\ [][pcRot = "failed" => pcRot' = "failed" /\ ~initialized']_vars

\* C24's case: Initialize has failed on a journal whose second-to-last X509 CA
\* entry does not parse and whose last entry is usable.
C24_FailedOnCorruptEntry ==
    /\ pcRot = "failed" /\ ~initialized
    /\ Len(journal.x509CAs) > 1
    /\ X509EntryUsable(journal.x509CAs[Len(journal.x509CAs)])
    /\ X509EntryCorrupt(journal.x509CAs[Len(journal.x509CAs) - 1])
    /\ ~ConsidersCorrupt(journal.jwtKeys, JWTEntryCorrupt, JWTEntryUsable)
    /\ failures = 1

\* ------------------------------------------------------------ failed preparation
\* C25: a preparation that fails at key generation, signing or the bundle
\* append leaves its slot empty, appends no journal entry and does not call the
\* sink, and leaves the other slot of the kind as it was; a failed preparation
\* of next is followed by no swap in that pass.
C25_FailedPrepareFrame ==
    [][/\ (pcRot = "xCur" /\ pcRot' \notin {"xCur", "init"} /\ x509CAErr') =>
             /\ pcRot' = "jBegin"
             /\ x509IsEmpty(currentX509CA') /\ currentX509CA'.id = currentX509CA.id
             /\ nextX509CA' = nextX509CA
             /\ journal' = journal /\ x509Sets' = x509Sets /\ jwtSets' = jwtSets
       /\ (pcRot = "xNext" /\ pcRot' \notin {"xNext", "init"} /\ x509CAErr') =>
             /\ pcRot' = "jBegin"
             /\ x509IsEmpty(nextX509CA') /\ nextX509CA'.id = nextX509CA.id
             /\ currentX509CA' = currentX509CA
             /\ journal' = journal /\ x509Sets' = x509Sets /\ jwtSets' = jwtSets
       /\ (pcRot = "jCur" /\ pcRot' \notin {"jCur", "init"} /\ jwtKeyErr') =>
             /\ pcRot' = "end"
             /\ jwtIsEmpty(currentJWTKey') /\ currentJWTKey'.id = currentJWTKey.id
             /\ nextJWTKey' = nextJWTKey
             /\ journal' = journal /\ x509Sets' = x509Sets /\ jwtSets' = jwtSets
       /\ (pcRot = "jNext" /\ pcRot' \notin {"jNext", "init"} /\ jwtKeyErr') =>
             /\ pcRot' = "end"
             /\ jwtIsEmpty(nextJWTKey') /\ nextJWTKey'.id = nextJWTKey.id
             /\ currentJWTKey' = currentJWTKey
             /\ journal' = journal /\ x509Sets' = x509Sets /\ jwtSets' = jwtSets
      ]_vars

\* C25's case: the preparation of the next JWT key has failed at the bundle
\* append, when the current key was past its activation threshold.
C25_FailedNextJWTKey ==
    /\ pcRot = "end" /\ jwtKeyErr
    /\ steps = <<"GenerateKey", "newJWTKey", "AppendBundle">>
    /\ ~jwtIsEmpty(currentJWTKey) /\ jwtIsEmpty(nextJWTKey)
    /\ JWTCrossed(currentJWTKey, now)

\* ------------------------------------------------------------ key binding
\* The key manager holds, under the slot's key id, the key of the slot's
\* material.
X509SlotBound(s) ==
    (s # NoSlot /\ ~x509IsEmpty(s)) =>
        /\ km[x509CAKmKeyId(s.id)] = s.x509CA.signer
        /\ s.x509CA.chain[1].key = s.x509CA.signer
JWTSlotBound(s) ==
    (s # NoSlot /\ ~jwtIsEmpty(s)) => km[jwtKeyKmKeyId(s.id)] = s.jwtKey.signer

\* C26: a non-empty slot's public key is the key the KeyManager holds under
\* the slot's key id (x509-CA-<id>, JWT-Signer-<id>), in every state; and a
\* preparation replaces no key but the one of the slot it prepares.
C26_SlotBoundToKeyManagerKey ==
    /\ [](/\ X509SlotBound(currentX509CA) /\ X509SlotBound(nextX509CA)
          /\ JWTSlotBound(currentJWTKey) /\ JWTSlotBound(nextJWTKey))
    /\ [][/\ pcRot = "xCur" =>
               \A id \in KmKeyIDs : id # x509CAKmKeyId(currentX509CA.id) => km'[id] = km[id]
          /\ pcRot = "xNext" =>
               \A id \in KmKeyIDs : id # x509CAKmKeyId(nextX509CA.id) => km'[id] = km[id]
          /\ pcRot = "jCur" =>
               \A id \in KmKeyIDs : id # jwtKeyKmKeyId(currentJWTKey.id) => km'[id] = km[id]
          /\ pcRot = "jNext" =>
               \A id \in KmKeyIDs : id # jwtKeyKmKeyId(nextJWTKey.id) => km'[id] = km[id]
          /\ pcRot \notin {"xCur", "xNext", "jCur", "jNext"} => km' = km]_vars

\* C26's case: after a swap, next has been prepared again while current is
\* active, for both kinds: all four keys of the key manager back a slot.
C26_BothSlotsBacked ==
    /\ pcRot = "idle" /\ initialized
    /\ Len(x509Sets) >= 2 /\ Len(jwtSets) >= 2
    /\ ~x509IsEmpty(currentX509CA) /\ ~x509IsEmpty(nextX509CA)
    /\ ~jwtIsEmpty(currentJWTKey) /\ ~jwtIsEmpty(nextJWTKey)
    /\ Cardinality({km[id] : id \in KmKeyIDs}) = 4

\* ------------------------------------------------------------ publication
\* C27: whatever is handed to the sink is, when it is handed over, not past
\* its own activation threshold, and so not expired, whatever time has gone
\* by between ticks or between a journal write and the next Initialize.
C27_PublishedNotCrossed ==
    [][/\ Len(x509Sets') > Len(x509Sets) =>
             /\ x509Sets'[Len(x509Sets')] = activateX509CA(currentX509CA')
             /\ ~X509Crossed(currentX509CA', now)
             /\ currentX509CA'.x509CA.chain[1].notAfter > now
       /\ Len(jwtSets') > Len(jwtSets) =>
             /\ jwtSets'[Len(jwtSets')] = activateJWTKey(currentJWTKey')
             /\ ~JWTCrossed(currentJWTKey', now)
             /\ currentJWTKey'.jwtKey.notAfter > now]_vars

\* ------------------------------------------------------------ progress
\* The current slot is past its activation threshold, in a server whose
\* rotation loop runs.
X509CurrentCrossed ==
    /\ initialized /\ pcRot \notin {"failed", "crashed"}
    /\ ~x509IsEmpty(currentX509CA) /\ X509Crossed(currentX509CA, now)
JWTCurrentCrossed ==
    /\ initialized /\ pcRot \notin {"failed", "crashed"}
    /\ ~jwtIsEmpty(currentJWTKey) /\ JWTCrossed(currentJWTKey, now)

\* The sink was last handed the current slot's material, which is not past
\* its activation threshold.
X509CurrentFresh ==
    /\ initialized
    /\ ~x509IsEmpty(currentX509CA) /\ ~X509Crossed(currentX509CA, now)
    /\ x509Sets # <<>> /\ x509Sets[Len(x509Sets)] = activateX509CA(currentX509CA)
JWTCurrentFresh ==
    /\ initialized
    /\ ~jwtIsEmpty(currentJWTKey) /\ ~JWTCrossed(currentJWTKey, now)
    /\ jwtSets # <<>> /\ jwtSets[Len(jwtSets)] = activateJWTKey(currentJWTKey)

\* C28: with the rotation ticker firing again and again and backend calls
\* that succeed in the end, whenever the current slot of a kind is past its
\* activation threshold, later other material is published as current, and
\* what a swap publishes was prepared after what it displaces: failed
\* preparations do not leave rotation stuck.
C28_CrossedLeadsToPublication ==
    /\ X509CurrentCrossed ~> X509CurrentFresh
    /\ JWTCurrentCrossed ~> JWTCurrentFresh
    /\ [][/\ (initialized /\ Len(x509Sets') > Len(x509Sets)) =>
               /\ currentX509CA'.x509CA # currentX509CA.x509CA
               /\ currentX509CA'.issuedAt > currentX509CA.issuedAt
          /\ (initialized /\ Len(jwtSets') > Len(jwtSets)) =>
               /\ currentJWTKey'.jwtKey # currentJWTKey.jwtKey
               /\ currentJWTKey'.issuedAt > currentJWTKey.issuedAt]_vars

\* C28's case: passes of the rotation loop have failed to prepare the next
\* slots until the first current slots were past their activation
\* thresholds, and a later pass has swapped in and published what it prepared.
C28_PublishedAfterFailure ==
    /\ initialized /\ pcRot = "idle"
    /\ cfg = KeyManagerDownAWhile
    /\ Len(x509Sets) = 2 /\ Len(jwtSets) = 2
    /\ X509CurrentFresh /\ JWTCurrentFresh
    /\ currentX509CA.issuedAt > activationThreshold(0, DefaultCATTL)
    /\ currentJWTKey.issuedAt > activationThreshold(0, DefaultCATTL)

\* ------------------------------------------------------------ round trip
\* t without what it holds beyond whole seconds.
WholeSeconds(t) == t - (t % cfg.clockTicks)

\* The last journal entries were appended by the preparations of the current
\* slots, and have been loaded.
Reloaded ==
    /\ reloaded # NoReload
    /\ ~x509IsEmpty(currentX509CA) /\ ~jwtIsEmpty(currentJWTKey)
    /\ Len(journal.x509CAs) = 1 /\ Len(journal.jwtKeys) = 1

\* C29 as stated: loading an entry that prepare appended, while the
\* KeyManager holds the key, yields the slot that was journaled: same id,
\* same issuedAt, same chain and IsIntermediate (X509) or same Kid and
\* NotAfter (JWT), and a signer for the same key.
C29_RoundTripExact ==
    Reloaded =>
        /\ ~reloaded.x509CA.err /\ reloaded.x509CA.slot = currentX509CA
        /\ ~reloaded.jwtKey.err /\ reloaded.jwtKey.slot = currentJWTKey

\* C29, amended: it yields the slot that was journaled but for its times:
\* issuedAt, and the JWT key's NotAfter, come back as whole seconds, without
\* what the Clock's reading held beyond them.
C29_RoundTripToWholeSeconds ==
    Reloaded =>
        /\ ~reloaded.x509CA.err
        /\ reloaded.x509CA.slot =
              [currentX509CA EXCEPT !.issuedAt = WholeSeconds(@)]
        /\ ~reloaded.jwtKey.err
        /\ reloaded.jwtKey.slot =
              [currentJWTKey EXCEPT !.issuedAt = WholeSeconds(@),
                                    !.jwtKey.notAfter = WholeSeconds(@)]

\* C29's case: the entries of an intermediate X509 CA and of a JWT key that
\* were prepared between two whole seconds have been loaded.
C29_ReloadedBetweenSeconds ==
    /\ Reloaded
    /\ currentX509CA.issuedAt % TicksPerSecond # 0
    /\ currentX509CA.x509CA.isIntermediate /\ Len(currentX509CA.x509CA.chain) = 2
    /\ reloaded.x509CA.slot # NoSlot /\ reloaded.jwtKey.slot # NoSlot

\* ------------------------------------------------------------ the pruned counter
\* A prune pass ends in this step: pruneBundle returns.
PruneReturns == pcPrune # "returned" /\ pcPrune' = "returned"

\* C30: the manager.bundle.pruned counter counts exactly the prune passes
\* that modified the stored bundle: a step increments it, by one, iff it is the
\* step in which a pass's UpdateBundle succeeds; a pass that is refused, finds
\* nothing to prune, or fails to fetch or to write leaves it as it was.
C30_PrunedCountsWrites ==
    [][/\ pruned' = pruned + 1 <=> (PruneReturns /\ pruneResult' = "updated")
       /\ pruned' # pruned => pruned' = pruned + 1]_vars

\* ------------------------------------------------------------ slot predicates
\* What the slot that was asked about holds: nothing, or material with a
\* NotAfter (the CA certificate's, or the key's).
SlotCaseEmpty ==
    IF slotCase.kind = "x509CASlot" THEN slotCase.slot.x509CA = NoX509CA
    ELSE slotCase.slot.jwtKey = NoJWTKey
SlotCaseNotAfter ==
    IF slotCase.kind = "x509CASlot" THEN slotCase.slot.x509CA.chain[1].notAfter
    ELSE slotCase.slot.jwtKey.notAfter
\* L = NotAfter - issuedAt, and L/n as the division of durations gives it.
SlotCaseL == SlotCaseNotAfter - slotCase.slot.issuedAt
DurationDiv(d, n) == IF d >= 0 THEN d \div n ELSE 0 - ((0 - d) \div n)

\* C31: an empty JWT slot answers true to ShouldPrepareNext(now) and to
\* ShouldActivateNext(now) for every now, and an empty X509 slot answers false
\* to both; a non-empty slot of either kind answers true exactly when now is
\* strictly after NotAfter - L/2 (prepare) or NotAfter - L/6 (activate), with
\* L = NotAfter - issuedAt.
C31_SlotPredicates ==
    slotResult # NoSlotResult =>
        IF SlotCaseEmpty
        THEN /\ slotResult.prepare = (slotCase.kind = "jwtKeySlot")
             /\ slotResult.activate = (slotCase.kind = "jwtKeySlot")
        ELSE /\ slotResult.prepare =
                  (slotCase.now > SlotCaseNotAfter - DurationDiv(SlotCaseL, 2))
             /\ slotResult.activate =
                  (slotCase.now > SlotCaseNotAfter - DurationDiv(SlotCaseL, 6))

\* C31's case: an empty JWT slot has answered true to both at a time that is
\* not after its issuedAt.
C31_EmptyJWTSlotAnswered ==
    /\ slotResult # NoSlotResult
    /\ slotCase.kind = "jwtKeySlot" /\ SlotCaseEmpty
    /\ slotCase.now < slotCase.slot.issuedAt
    /\ slotResult.prepare /\ slotResult.activate

====
